---- MODULE Spec2Model ----
(***************************************************************************)
(* A model of virtual-tiff's IFD-to-virtual-array translator               *)
(* (src/src/virtual_tiff/parser.py, codecs.py, imagecodecs.py, utils.py). *)
(*                                                                         *)
(* The translator is a set of pure functions over one parsed Image File   *)
(* Directory.  Each specification below draws the arguments of one         *)
(* function in Init (pc = "call") and applies the function in one action   *)
(* (pc = "done"), leaving the outcome in ret.                              *)
(*                                                                         *)
(* Python values are modelled as follows.                                  *)
(*   - a call's outcome is Return(v) or Raise(exception, message);        *)
(*   - an absent (None) integer field of the IFD is 0 and an absent list   *)
(*     is <<>>: the code only tests such fields for truthiness;            *)
(*   - a dict is a function; a key is the Python repr of the key, so the   *)
(*     int 65564 is "65564" and the str 'ZSTD_LEVEL_TAG' is               *)
(*     "'ZSTD_LEVEL_TAG'";                                                 *)
(*   - the GDAL metadata XML is the sequence of its Item elements, each a   *)
(*     name ("" when the element has none) and a text, the text being the   *)
(*     sequence of its characters;                                          *)
(*   - a regular chunk geometry (a tuple of ints) is Regular(shape), a     *)
(*     rectilinear one (a list of lists of ints) is Rectilinear(shapes).   *)
(***************************************************************************)
EXTENDS Integers, Sequences, FiniteSets, TLC

VARIABLES
    pc,      \* "call": the arguments are drawn; later: the position after each step
    ifd,     \* the ImageFileDirectory the function is applied to
    endian,  \* the byte order detected for the file: "little" or "big"
    args,    \* the other arguments of the function under application
    ret,     \* the outcome of the call
    codec,   \* the codec step a serialization round trip starts from
    data,    \* the serialized (dict) form of that codec
    tiff,    \* tiff.ifds: the IFDs of the opened file, in index order
    manifest_arrays,  \* the dict _build_manifest_arrays fills
    next_idx,         \* the index the loop over tiff.ifds visits next
    translated,       \* the indices of the IFDs translated so far, in call order
    source,  \* the bytes of the file in the object store
    io       \* the reads made of the file so far, in call order

file == <<source, io>>

directory == <<tiff, manifest_arrays, next_idx, translated, file>>

vars == <<pc, ifd, endian, args, ret, codec, data, directory>>

(***************************************************************************)
(* Bounds of the model.                                                    *)
(***************************************************************************)
MaxStripHeight == 5
MaxStripWidth == 3

(***************************************************************************)
(* Python values.                                                          *)
(***************************************************************************)
None == "None"

Return(v) == [exc |-> "None", value |-> v]

Raise(e, m) == [exc |-> e, msg |-> m]

\* raise e(f"..."): the message is the f-string's template, arg the value it
\* formats in.
RaiseF(e, m, v) == [exc |-> e, msg |-> m, arg |-> v]

Returned(r) == r.exc = "None"

Regular(shape) == [kind |-> "regular", shape |-> shape]

Rectilinear(shapes) == [kind |-> "rectilinear", shapes |-> shapes]

\* [x] * n
Repeat(x, n) == [i \in 1..n |-> x]

RECURSIVE SumSeq(_)
SumSeq(s) == IF s = <<>> THEN 0 ELSE Head(s) + SumSeq(Tail(s))

RECURSIVE ProdSeq(_)
ProdSeq(s) == IF s = <<>> THEN 1 ELSE Head(s) * ProdSeq(Tail(s))

\* math.ceil(a / b) for the non-negative a and positive b of an image
CeilDiv(a, b) == (a + b - 1) \div b

Min(a, b) == IF a < b THEN a ELSE b

\* dict.get(key, default)
DictGet(d, key, default) == IF key \in DOMAIN d THEN d[key] ELSE default

(***************************************************************************)
(* The ImageFileDirectory (async_tiff): the fields the translator reads.   *)
(* BaseIfd is a single-band, uncompressed, stripped 2 x 2 image of one     *)
(* strip; the specifications vary the fields their function reads.         *)
(***************************************************************************)
EmptyDict == [k \in {} |-> 0]

\* No file is open: the state of the directory variables in the specifications
\* that apply a function to a single IFD.
NoDirectory ==
    /\ tiff = <<>>
    /\ manifest_arrays = EmptyDict
    /\ next_idx = 0
    /\ translated = <<>>
    /\ source = <<>>
    /\ io = <<>>

\* The byte offset and byte count the n-th chunk (1-based) of a dense file has.
DenseOffsets(n) == [i \in 1..n |-> 8 * i]

DenseByteCounts(n) == [i \in 1..n |-> 4]

BaseIfd ==
    [ image_height |-> 2, image_width |-> 2,
      tile_height |-> 0, tile_width |-> 0,
      tile_offsets |-> <<>>, tile_byte_counts |-> <<>>,
      rows_per_strip |-> 2,
      strip_offsets |-> DenseOffsets(1), strip_byte_counts |-> DenseByteCounts(1),
      sample_format |-> <<1>>, bits_per_sample |-> <<8>>,
      samples_per_pixel |-> 1, planar_configuration |-> 1,
      predictor |-> 1, compression |-> 1,
      photometric_interpretation |-> 1,
      other_tags |-> EmptyDict,
      has_jpeg_tables |-> FALSE, jpeg_tables |-> <<>>,
      geo_key_directory |-> EmptyDict,
      model_pixel_scale |-> <<>>, model_tiepoint |-> <<>>,
      gdal_metadata |-> <<>>, gdal_nodata |-> "" ]

(***************************************************************************)
(* parser.py: _get_chunks_from_strips                                      *)
(***************************************************************************)
\* utils.py: check_no_partial_strips (parser.py does not call it).
check_no_partial_strips(image_height, rows_per_strip) ==
    IF image_height % rows_per_strip > 0
    THEN RaiseF("ValueError",
                "Zarr's default chunk grid expects all chunks to be equal size, but this TIFF has an image height of {image_height} which isn't evenly divisible by its rows per strip {rows_per_strip}. See https://github.com/developmentseed/virtual-tiff/issues/24 for more details.",
                <<image_height, rows_per_strip>>)
    ELSE Return(None)

\* A variant of _get_chunks_from_strips that calls check_no_partial_strips first
\* and so only ever yields the regular shape (rows_per_strip, width).
_get_chunks_from_strips_checked(ifd_, image_height) ==
    IF ifd_.rows_per_strip = 0
    THEN Raise("ZeroDivisionError", "integer modulo by zero")
    ELSE IF ~Returned(check_no_partial_strips(image_height, ifd_.rows_per_strip))
    THEN check_no_partial_strips(image_height, ifd_.rows_per_strip)
    ELSE Return([chunks |-> Regular(<<ifd_.rows_per_strip, ifd_.image_width>>),
                 offsets |-> ifd_.strip_offsets,
                 byte_counts |-> ifd_.strip_byte_counts])

\* A variant of _get_chunks_from_strips without the short-last-strip branch (the
\* geometry of reader.py:97): the chunk shape is always (rows_per_strip, width).
_get_chunks_from_strips_no_remainder(ifd_, image_height) ==
    Return([chunks |-> Regular(<<ifd_.rows_per_strip, ifd_.image_width>>),
            offsets |-> ifd_.strip_offsets,
            byte_counts |-> ifd_.strip_byte_counts])

_get_chunks_from_strips(ifd_, image_height) ==
    LET rows_per_strip == ifd_.rows_per_strip
        remainder == image_height % rows_per_strip
        quotient == image_height \div rows_per_strip
    IN  IF rows_per_strip > image_height
        THEN Return([chunks |-> Regular(<<image_height, ifd_.image_width>>),
                     offsets |-> ifd_.strip_offsets,
                     byte_counts |-> ifd_.strip_byte_counts])
        ELSE IF rows_per_strip = 0
        THEN Raise("ZeroDivisionError", "integer modulo by zero")
        ELSE IF remainder > 0
        THEN Return([chunks |-> Rectilinear(<<Repeat(rows_per_strip, quotient) \o <<remainder>>,
                                              <<ifd_.image_width>>>>),
                     offsets |-> ifd_.strip_offsets,
                     byte_counts |-> ifd_.strip_byte_counts])
        ELSE Return([chunks |-> Regular(<<rows_per_strip, ifd_.image_width>>),
                     offsets |-> ifd_.strip_offsets,
                     byte_counts |-> ifd_.strip_byte_counts])

(***************************************************************************)
(* SpecStrips: _get_chunks_from_strips applied to every stripped IFD of    *)
(* height 1..MaxStripHeight, width 1..MaxStripWidth and rows-per-strip     *)
(* 1..MaxStripHeight+1 (the caller passes ifd.image_height and only calls  *)
(* when rows_per_strip is truthy, parser.py:243-246).                      *)
(***************************************************************************)
StripIfds ==
    { [BaseIfd EXCEPT !.image_height = H, !.image_width = W, !.rows_per_strip = S,
                      !.strip_offsets = DenseOffsets(CeilDiv(H, Min(S, H))),
                      !.strip_byte_counts = DenseByteCounts(CeilDiv(H, Min(S, H)))] :
        H \in 1..MaxStripHeight, W \in 1..MaxStripWidth, S \in 1..(MaxStripHeight + 1) }

InitStrips ==
    /\ pc = "call"
    /\ ifd \in StripIfds
    /\ endian = "little"
    /\ args = [image_height |-> ifd.image_height]
    /\ ret = None
    /\ codec = None
    /\ data = None
    /\ NoDirectory

get_chunks_from_strips ==
    /\ pc = "call"
    /\ ret' = _get_chunks_from_strips(ifd, args.image_height)
    /\ pc' = "done"
    /\ UNCHANGED <<ifd, endian, args, codec, data, directory>>

NextStrips == get_chunks_from_strips

SpecStrips == InitStrips /\ [][NextStrips]_vars

SAMPLE_DTYPES ==
    (<<1, 8>> :> "B") @@ (<<1, 16>> :> "H") @@ (<<1, 32>> :> "I") @@ (<<1, 64>> :> "Q") @@
    (<<2, 8>> :> "b") @@ (<<2, 16>> :> "h") @@ (<<2, 32>> :> "i") @@ (<<2, 64>> :> "q") @@
    (<<3, 16>> :> "e") @@ (<<3, 32>> :> "f") @@ (<<3, 64>> :> "d")

\* numpy.dtype(char): the kind and item size of a type character; a single-byte
\* type has no byte order ("|"), any other has the host's ("=") until
\* newbyteorder sets it.
np_dtype(char) ==
    LET kind == CASE char \in {"B", "H", "I", "Q"} -> "u"
                  [] char \in {"b", "h", "i", "q"} -> "i"
                  [] OTHER -> "f"
        itemsize == CASE char \in {"B", "b"} -> 1
                      [] char \in {"H", "h", "e"} -> 2
                      [] char \in {"I", "i", "f"} -> 4
                      [] OTHER -> 8
    IN  [kind |-> kind, itemsize |-> itemsize,
         byteorder |-> IF itemsize = 1 THEN "|" ELSE "="]

newbyteorder(dtype, byteorder) == [dtype EXCEPT !.byteorder = byteorder]

\* all(x == s[0] for x in s)
AllEqualFirst(s) == \A i \in 1..Len(s) : s[i] = s[1]

(***************************************************************************)
(* parser.py: _get_dtype                                                   *)
(***************************************************************************)
\* A variant of _get_dtype that never sets the byte order: a multi-byte result
\* keeps the host's.
_get_dtype_native_order(sample_format, bits_per_sample, endian_) ==
    IF ~AllEqualFirst(sample_format) \/ ~AllEqualFirst(bits_per_sample)
    THEN Raise("ValueError", "multiple data types in a single IFD")
    ELSE LET key == <<sample_format[1], bits_per_sample[1]>>
         IN  IF key \notin DOMAIN SAMPLE_DTYPES
             THEN Raise("ValueError", "Unrecognized datatype")
             ELSE IF SAMPLE_DTYPES[key] \in {"q", "Q"}
             THEN Raise("NotImplementedError", "Requires upstream fix")
             ELSE Return(np_dtype(SAMPLE_DTYPES[key]))

\* A variant of _get_dtype whose handler catches every exception raised in the
\* try block, so that the 64-bit rejection leaves as the "Unrecognized datatype"
\* ValueError.
_get_dtype_broad_except(sample_format, bits_per_sample, endian_) ==
    IF ~AllEqualFirst(sample_format)
    THEN Raise("ValueError", "multiple sample formats in a single IFD")
    ELSE IF ~AllEqualFirst(bits_per_sample)
    THEN Raise("ValueError", "multiple bits per sample in a single IFD")
    ELSE IF sample_format = <<>> \/ bits_per_sample = <<>>
    THEN Raise("IndexError", "tuple index out of range")
    ELSE LET key == <<sample_format[1], bits_per_sample[1]>>
         IN  IF key \notin DOMAIN SAMPLE_DTYPES
             THEN Raise("ValueError", "Unrecognized datatype")
             ELSE LET dtype == SAMPLE_DTYPES[key]
                      result == np_dtype(dtype)
                  IN  IF dtype \in {"q", "Q"}
                      THEN Raise("ValueError", "Unrecognized datatype")
                      ELSE IF result.itemsize > 1
                      THEN Return(newbyteorder(result,
                                               IF endian_ = "big" THEN ">" ELSE "<"))
                      ELSE Return(result)

_get_dtype(sample_format, bits_per_sample, endian_) ==
    IF ~AllEqualFirst(sample_format)
    THEN Raise("ValueError", "multiple sample formats in a single IFD")
    ELSE IF ~AllEqualFirst(bits_per_sample)
    THEN Raise("ValueError", "multiple bits per sample in a single IFD")
    ELSE IF sample_format = <<>> \/ bits_per_sample = <<>>
    THEN Raise("IndexError", "tuple index out of range")
    ELSE LET key == <<sample_format[1], bits_per_sample[1]>>
         IN  IF key \notin DOMAIN SAMPLE_DTYPES
             THEN Raise("ValueError", "Unrecognized datatype")
             ELSE LET dtype == SAMPLE_DTYPES[key]
                      result == np_dtype(dtype)
                  IN  IF dtype \in {"q", "Q"}
                      THEN Raise("NotImplementedError", "Requires upstream fix")
                      ELSE IF result.itemsize > 1
                      THEN Return(newbyteorder(result,
                                               IF endian_ = "big" THEN ">" ELSE "<"))
                      ELSE Return(result)

(***************************************************************************)
(* SpecDtype: _get_dtype applied to every pair of sample-format and        *)
(* bits-per-sample tuples for 1..MaxSamples samples, and both byte orders. *)
(***************************************************************************)
MaxSamples == 2
MaxSampleFormat == 4

SampleFormats == 1..MaxSampleFormat

BitWidths == {1, 8, 16, 32, 64}

Endians == {"little", "big"}

TuplesOf(S, n) == [1..n -> S]

InitDtype ==
    /\ pc = "call"
    /\ \E n \in 1..MaxSamples :
         \E sf \in TuplesOf(SampleFormats, n), bps \in TuplesOf(BitWidths, n) :
            ifd = [BaseIfd EXCEPT !.samples_per_pixel = n,
                                  !.sample_format = sf, !.bits_per_sample = bps]
    /\ endian \in Endians
    /\ args = None
    /\ ret = None
    /\ codec = None
    /\ data = None
    /\ NoDirectory

get_dtype ==
    /\ pc = "call"
    /\ ret' = _get_dtype(ifd.sample_format, ifd.bits_per_sample, endian)
    /\ pc' = "done"
    /\ UNCHANGED <<ifd, endian, args, codec, data, directory>>

NextDtype == get_dtype

SpecDtype == InitDtype /\ [][NextDtype]_vars

\* The scalar kind a sample format stands for, and whether (f, b) is a supported
\* pair that is not a 64-bit integer.
KindOfFormat(f) == CASE f = 1 -> "u" [] f = 2 -> "i" [] OTHER -> "f"

SupportedPair(f, b) ==
    /\ <<f, b>> \in DOMAIN SAMPLE_DTYPES
    /\ ~(f \in {1, 2} /\ b = 64)

\* C10: for a uniform sample format f and bit width b, (f, b) supported and not a
\* 64-bit integer, _get_dtype returns the table's scalar type (kind of f, b/8
\* bytes); a multi-byte result is big-endian when the byte order is "big" and
\* little-endian otherwise; a single-byte result carries no byte-order marker.
DtypeResolution ==
    (pc = "done" /\ AllEqualFirst(ifd.sample_format) /\ AllEqualFirst(ifd.bits_per_sample)
        /\ SupportedPair(ifd.sample_format[1], ifd.bits_per_sample[1])) =>
        /\ Returned(ret)
        /\ ret.value.kind = KindOfFormat(ifd.sample_format[1])
        /\ ret.value.itemsize * 8 = ifd.bits_per_sample[1]
        /\ ret.value.byteorder =
              IF ifd.bits_per_sample[1] = 8 THEN "|"
              ELSE IF endian = "big" THEN ">" ELSE "<"

\* C10's case: a multi-byte type of a two-sample IFD read from a big-endian file.
DtypeResolutionWitness ==
    /\ pc = "done"
    /\ Returned(ret)
    /\ Len(ifd.sample_format) = 2
    /\ endian = "big"
    /\ ret.value.itemsize > 1
    /\ ret.value.byteorder = ">"

(***************************************************************************)
(* The codec steps.  A step is its class, the category of the class        *)
(* (array_array, array_bytes or bytes_bytes: the zarr base class it         *)
(* derives from) and its fields.                                            *)
(***************************************************************************)
\* zarr.core.common.parse_enum(endian, Endian)
Endian == {"big", "little"}

\* codecs.py: ChunkyCodec(ArrayBytesCodec).__init__(*, endian="little")
ChunkyCodec(endian_) ==
    IF endian_ = None
    THEN Return([cls |-> "ChunkyCodec", category |-> "array_bytes",
                 configuration |-> [endian |-> None]])
    ELSE IF endian_ \notin Endian
    THEN Raise("ValueError", "Value must be one of ['big', 'little']")
    ELSE Return([cls |-> "ChunkyCodec", category |-> "array_bytes",
                 configuration |-> [endian |-> endian_]])

\* codecs.py: HorizontalDeltaCodec(ArrayArrayCodec).__init__()
HorizontalDeltaCodec ==
    [cls |-> "HorizontalDeltaCodec", category |-> "array_array",
     configuration |-> EmptyDict]

\* zarr.codecs.BytesCodec(endian=...)
\* A variant of BytesCodec that ignores the byte order it is given
\* (BytesCodec(), whose default is little-endian).
BytesCodec_default_endian(endian_) ==
    [cls |-> "BytesCodec", category |-> "array_bytes",
     configuration |-> [endian |-> "little"]]

BytesCodec(endian_) ==
    [cls |-> "BytesCodec", category |-> "array_bytes",
     configuration |-> [endian |-> endian_]]

\* zarr.codecs.TransposeCodec(order=...)
TransposeCodec(order) ==
    [cls |-> "TransposeCodec", category |-> "array_array",
     configuration |-> [order |-> order]]

\* codecs.py of the revision parser.py imports from (not among the source files):
\* the size-truncation codec, which trims the decoded bytes of a chunk.
TruncateCodec ==
    [cls |-> "TruncateCodec", category |-> "bytes_bytes",
     configuration |-> EmptyDict]

\* imagecodecs.py of the revision parser.py imports from (not among the source
\* files): the floating-point predictor, an array-to-array step.
FloatPredCodec(dtype, shape) ==
    [cls |-> "FloatPredCodec", category |-> "array_array",
     configuration |-> [dtype |-> dtype, shape |-> shape]]

\* imagecodecs.py of the revision parser.py imports from (not among the source
\* files): the zstd decompressor, a bytes-to-bytes step.
ZstdCodec(level) ==
    [cls |-> "ZstdCodec", category |-> "bytes_bytes",
     configuration |-> [level |-> level]]

\* codec(): a compressor class of COMPRESSORS built with no arguments.
CompressorCodec(codec_name) ==
    [cls |-> codec_name, category |-> "bytes_bytes", configuration |-> EmptyDict]

(***************************************************************************)
(* constants.py (not among the source files): COMPRESSORS maps a TIFF      *)
(* compression code to a codec class, here to the class's codec_name.      *)
(* The closed table is modelled by four of its entries: LZW, JPEG,         *)
(* deflate and zstd.                                                       *)
(***************************************************************************)
COMPRESSORS ==
    (5 :> "imagecodecs_lzw") @@ (7 :> "imagecodecs_jpeg") @@
    (8 :> "imagecodecs_zlib") @@ (50000 :> "imagecodecs_zstd")

ZSTD_LEVEL_TAG == "'65564'"

DEFAULT_ZSTD_LEVEL == 9

\* The key async_tiff files the vendor ZSTD level tag under: the int 65564.
ZstdLevelKey == "65564"

\* The key async_tiff files the sub-IFD tag under: the int 330.
SubIfdKey == "330"

(***************************************************************************)
(* parser.py: _get_compression                                             *)
(***************************************************************************)
\* A variant of _get_compression whose zstd level defaults to 3, the zstd
\* library's own default, instead of DEFAULT_ZSTD_LEVEL.
_get_compression_library_default(ifd_, compression) ==
    LET codec_ == DictGet(COMPRESSORS, compression, None)
    IN  IF codec_ = None
        THEN RaiseF("ValueError",
                    "TIFF has compressor tag {compression}, which is not recognized. Please raise an issue for support.",
                    compression)
        ELSE IF ifd_.has_jpeg_tables /\ ifd_.jpeg_tables # <<>>
        THEN Raise("NotImplementedError",
                   "JPEG compression with quantization tables is not yet supported.")
        ELSE IF codec_ = "imagecodecs_zstd"
        THEN Return(ZstdCodec(DictGet(ifd_.other_tags, "'ZSTD_LEVEL_TAG'", 3)))
        ELSE Return(CompressorCodec(codec_))

\* A variant of _get_compression that falls back to the deflate codec for a
\* compression code outside the table.
_get_compression_fallback(ifd_, compression) ==
    LET codec_ == DictGet(COMPRESSORS, compression, "imagecodecs_zlib")
    IN  IF ifd_.has_jpeg_tables /\ ifd_.jpeg_tables # <<>>
        THEN Raise("NotImplementedError",
                   "JPEG compression with quantization tables is not yet supported.")
        ELSE IF codec_ = "imagecodecs_zstd"
        THEN Return(ZstdCodec(DictGet(ifd_.other_tags, "'ZSTD_LEVEL_TAG'",
                                      DEFAULT_ZSTD_LEVEL)))
        ELSE Return(CompressorCodec(codec_))

_get_compression(ifd_, compression) ==
    LET codec_ == DictGet(COMPRESSORS, compression, None)
    IN  IF codec_ = None
        THEN RaiseF("ValueError",
                    "TIFF has compressor tag {compression}, which is not recognized. Please raise an issue for support.",
                    compression)
        ELSE IF ifd_.has_jpeg_tables /\ ifd_.jpeg_tables # <<>>
        THEN Raise("NotImplementedError",
                   "JPEG compression with quantization tables is not yet supported.")
        ELSE IF codec_ = "imagecodecs_zstd"
        THEN Return(ZstdCodec(DictGet(ifd_.other_tags, "'ZSTD_LEVEL_TAG'",
                                      DEFAULT_ZSTD_LEVEL)))
        ELSE Return(CompressorCodec(codec_))

(***************************************************************************)
(* SpecCompression: _get_compression applied to every compression code of  *)
(* CompressionCodes (recognized and not), with and without the vendor ZSTD *)
(* level tag, the sub-IFD tag and JPEG tables.                             *)
(***************************************************************************)
MaxZstdLevel == 3

\* Codes 2 (CCITT) and 32767 stand for the codes outside the table.
CompressionCodes == {2, 5, 7, 8, 50000, 32767}

\* The other_tags a directory can carry: any of the ZSTD level tag (with a level
\* of 1..MaxZstdLevel) and the sub-IFD tag (with one sub-directory offset).
OtherTags ==
    { EmptyDict, (SubIfdKey :> <<64>>) }
    \cup { (ZstdLevelKey :> L) : L \in 1..MaxZstdLevel }
    \cup { (ZstdLevelKey :> L) @@ (SubIfdKey :> <<64>>) : L \in 1..MaxZstdLevel }

\* jpeg_tables: no such attribute, an empty value, or a table's bytes.
JpegTables ==
    { [has |-> FALSE, tables |-> <<>>], [has |-> TRUE, tables |-> <<>>],
      [has |-> TRUE, tables |-> <<255, 216>>] }

InitCompression ==
    /\ pc = "call"
    /\ \E c \in CompressionCodes, tags \in OtherTags, jt \in JpegTables :
          ifd = [BaseIfd EXCEPT !.compression = c, !.other_tags = tags,
                                !.has_jpeg_tables = jt.has, !.jpeg_tables = jt.tables]
    /\ endian = "little"
    /\ args = [compression |-> ifd.compression]
    /\ ret = None
    /\ codec = None
    /\ data = None
    /\ NoDirectory

get_compression ==
    /\ pc = "call"
    /\ ret' = _get_compression(ifd, args.compression)
    /\ pc' = "done"
    /\ UNCHANGED <<ifd, endian, args, codec, data, directory>>

NextCompression == get_compression

SpecCompression == InitCompression /\ [][NextCompression]_vars

IsZstd(compression) ==
    compression \in DOMAIN COMPRESSORS /\ COMPRESSORS[compression] = "imagecodecs_zstd"

\* C7: when the compression code maps to the zstd codec and the IFD carries the
\* vendor ZSTD level tag (65564) with value L, the codec _get_compression
\* produces is configured with level L.
ZstdLevelFromTag ==
    (pc = "done" /\ IsZstd(args.compression) /\ Returned(ret)
        /\ ZstdLevelKey \in DOMAIN ifd.other_tags) =>
        ret.value.configuration.level = ifd.other_tags[ZstdLevelKey]

\* C8: when the compression code maps to the zstd codec and the IFD carries no
\* vendor level tag, the codec _get_compression produces is configured with
\* level 9.
ZstdDefaultLevel ==
    (pc = "done" /\ IsZstd(args.compression) /\ Returned(ret)
        /\ ZstdLevelKey \notin DOMAIN ifd.other_tags) =>
        /\ ret.value.cls = "ZstdCodec"
        /\ "level" \in DOMAIN ret.value.configuration
        /\ ret.value.configuration.level = 9

\* C8's case: a zstd IFD without the level tag has been given its codec.
ZstdDefaultLevelWitness ==
    /\ pc = "done"
    /\ IsZstd(args.compression)
    /\ ZstdLevelKey \notin DOMAIN ifd.other_tags
    /\ Returned(ret)
    /\ ret.value.cls = "ZstdCodec"

(***************************************************************************)
(* utils.py: _is_nested_sequence.  A chunk geometry is never a str, int or  *)
(* ChunkGrid and is iterable; what is left is whether its first element     *)
(* exists and is itself iterable: the blocks of a rectilinear geometry are  *)
(* lists, the entries of a regular one are ints.                            *)
(***************************************************************************)
ChunkItems(chunks) == IF chunks.kind = "regular" THEN chunks.shape ELSE chunks.shapes

_is_nested_sequence(chunks) ==
    IF ChunkItems(chunks) = <<>>
    THEN FALSE
    ELSE chunks.kind = "rectilinear"

\* A variant of ReversedRange without the reversal: tuple(range(1, n)).
ReversedRange_ascending(n) == [i \in 1..(n - 1) |-> i]

\* tuple(range(1, n))[::-1]
ReversedRange(n) == [i \in 1..(n - 1) |-> n - i]

(***************************************************************************)
(* parser.py: _get_codecs                                                  *)
(***************************************************************************)
\* A variant of _get_codecs that appends the predictor step last instead of
\* first.
_get_codecs_predictor_last(ifd_, shape, chunks, dtype, endian_) ==
    LET predictor_steps ==
            IF ifd_.predictor = 2 THEN <<HorizontalDeltaCodec>>
            ELSE IF ifd_.predictor = 3 THEN <<FloatPredCodec(dtype, chunks)>>
            ELSE <<>>
        compressor == _get_compression(ifd_, ifd_.compression)
        codecs == (IF ifd_.planar_configuration = 1 /\ ifd_.samples_per_pixel > 1
                   THEN <<TransposeCodec(<<0>> \o ReversedRange(Len(shape))),
                          ChunkyCodec(endian_).value>>
                   ELSE <<BytesCodec(endian_)>>)
                  \o (IF _is_nested_sequence(chunks) THEN <<TruncateCodec>> ELSE <<>>)
    IN  IF ifd_.compression > 1
        THEN IF Returned(compressor)
             THEN Return(codecs \o <<compressor.value>> \o predictor_steps)
             ELSE compressor
        ELSE Return(codecs \o predictor_steps)

\* A variant of _get_codecs that appends the compressor before the truncation
\* step instead of last.
_get_codecs_compressor_before_truncate(ifd_, shape, chunks, dtype, endian_) ==
    LET predictor_steps ==
            IF ifd_.predictor = 2 THEN <<HorizontalDeltaCodec>>
            ELSE IF ifd_.predictor = 3 THEN <<FloatPredCodec(dtype, chunks)>>
            ELSE <<>>
        compressor == _get_compression(ifd_, ifd_.compression)
        truncate_steps == IF _is_nested_sequence(chunks) THEN <<TruncateCodec>> ELSE <<>>
        codecs == predictor_steps
                  \o (IF ifd_.planar_configuration = 1 /\ ifd_.samples_per_pixel > 1
                      THEN <<TransposeCodec(<<0>> \o ReversedRange(Len(shape))),
                             ChunkyCodec(endian_).value>>
                      ELSE <<BytesCodec(endian_)>>)
    IN  IF ifd_.compression > 1
        THEN IF Returned(compressor)
             THEN Return(codecs \o <<compressor.value>> \o truncate_steps)
             ELSE compressor
        ELSE Return(codecs \o truncate_steps)

\* A variant of _get_codecs without the truncation step.
_get_codecs_no_truncate(ifd_, shape, chunks, dtype, endian_) ==
    LET predictor_steps ==
            IF ifd_.predictor = 2 THEN <<HorizontalDeltaCodec>>
            ELSE IF ifd_.predictor = 3 THEN <<FloatPredCodec(dtype, chunks)>>
            ELSE <<>>
        compressor == _get_compression(ifd_, ifd_.compression)
        codecs == predictor_steps
                  \o (IF ifd_.planar_configuration = 1 /\ ifd_.samples_per_pixel > 1
                      THEN <<TransposeCodec(<<0>> \o ReversedRange(Len(shape))),
                             ChunkyCodec(endian_).value>>
                      ELSE <<BytesCodec(endian_)>>)
    IN  IF ifd_.compression > 1
        THEN IF Returned(compressor)
             THEN Return(codecs \o <<compressor.value>>)
             ELSE compressor
        ELSE Return(codecs)

_get_codecs(ifd_, shape, chunks, dtype, endian_) ==
    LET predictor_steps ==
            IF ifd_.predictor = 2 THEN <<HorizontalDeltaCodec>>
            ELSE IF ifd_.predictor = 3 THEN <<FloatPredCodec(dtype, chunks)>>
            ELSE <<>>
        compression == ifd_.compression
        chunky == ChunkyCodec(endian_)
        truncate_steps == IF _is_nested_sequence(chunks) THEN <<TruncateCodec>> ELSE <<>>
        compressor == _get_compression(ifd_, compression)
    IN  IF ifd_.planar_configuration = 1 /\ ifd_.samples_per_pixel > 1
        THEN IF ~Returned(chunky)
             THEN chunky
             ELSE LET codecs == predictor_steps
                                \o <<TransposeCodec(<<0>> \o ReversedRange(Len(shape))),
                                     chunky.value>>
                                \o truncate_steps
                  IN  IF compression > 1
                      THEN IF Returned(compressor)
                           THEN Return(codecs \o <<compressor.value>>)
                           ELSE compressor
                      ELSE Return(codecs)
        ELSE LET codecs == predictor_steps \o <<BytesCodec(endian_)>> \o truncate_steps
             IN  IF compression > 1
                 THEN IF Returned(compressor)
                      THEN Return(codecs \o <<compressor.value>>)
                      ELSE compressor
                 ELSE Return(codecs)

(***************************************************************************)
(* parser.py: _add_dim_for_samples_per_pixel                               *)
(***************************************************************************)
\* A variant of _add_dim_for_samples_per_pixel whose planar branch gives a
\* rectilinear geometry one band block of size n instead of n blocks of size 1.
_add_dim_for_samples_per_pixel_one_block(ifd_, shape, chunks) ==
    LET sample_dim_length == ifd_.samples_per_pixel
        new_shape == <<sample_dim_length>> \o shape
    IN  IF _is_nested_sequence(chunks)
        THEN [shape |-> new_shape,
              chunks |-> Rectilinear(<<<<sample_dim_length>>>> \o chunks.shapes)]
        ELSE [shape |-> new_shape,
              chunks |-> Regular(<<IF ifd_.planar_configuration = 2
                                   THEN 1 ELSE sample_dim_length>> \o chunks.shape)]

\* A variant of _add_dim_for_samples_per_pixel that adds the band dimension to
\* the shape only and leaves the chunk geometry as it is.
_add_dim_for_samples_per_pixel_shape_only(ifd_, shape, chunks) ==
    [shape |-> <<ifd_.samples_per_pixel>> \o shape, chunks |-> chunks]

_add_dim_for_samples_per_pixel(ifd_, shape, chunks) ==
    LET sample_dim_length == ifd_.samples_per_pixel
        new_shape == <<sample_dim_length>> \o shape
    IN  IF ifd_.planar_configuration = 2
        THEN IF _is_nested_sequence(chunks)
             THEN [shape |-> new_shape,
                   chunks |-> Rectilinear(<<Repeat(1, sample_dim_length)>> \o chunks.shapes)]
             ELSE [shape |-> new_shape,
                   chunks |-> Regular(<<1>> \o chunks.shape)]
        ELSE IF _is_nested_sequence(chunks)
             THEN [shape |-> new_shape,
                   chunks |-> Rectilinear(<<<<sample_dim_length>>>> \o chunks.shapes)]
             ELSE [shape |-> new_shape,
                   chunks |-> Regular(<<sample_dim_length>> \o chunks.shape)]

(***************************************************************************)
(* SpecSamples: _add_dim_for_samples_per_pixel applied to the geometry of  *)
(* every stripped IFD of StripIfds (regular and rectilinear), for          *)
(* 2..MaxSamples+1 samples per pixel (the caller only calls it when        *)
(* samples_per_pixel > 1, parser.py:255) and both planar configurations    *)
(* (1 chunky, 2 planar).                                                   *)
(***************************************************************************)
PlanarConfigurations == {1, 2}

InitSamples ==
    /\ pc = "call"
    /\ \E base \in StripIfds, n \in 2..(MaxSamples + 1), p \in PlanarConfigurations :
          ifd = [base EXCEPT !.samples_per_pixel = n, !.planar_configuration = p]
    /\ endian = "little"
    /\ args = [shape |-> <<ifd.image_height, ifd.image_width>>,
               chunks |-> _get_chunks_from_strips(ifd, ifd.image_height).value.chunks]
    /\ ret = None
    /\ codec = None
    /\ data = None
    /\ NoDirectory

add_dim_for_samples_per_pixel ==
    /\ pc = "call"
    /\ ret' = Return(_add_dim_for_samples_per_pixel(ifd, args.shape, args.chunks))
    /\ pc' = "done"
    /\ UNCHANGED <<ifd, endian, args, codec, data, directory>>

NextSamples == add_dim_for_samples_per_pixel

SpecSamples == InitSamples /\ [][NextSamples]_vars

\* C4: for an IFD with n > 1 samples per pixel the leading band axis gets a
\* chunk size of 1 (regular: a leading 1; rectilinear: n blocks of size 1) when
\* the planar configuration is planar, and of n (regular: a leading n;
\* rectilinear: one block of size n) when it is chunky, for regular and
\* rectilinear spatial geometries alike; the spatial entries are unchanged.
BandChunkSize ==
    pc = "done" =>
        LET n == ifd.samples_per_pixel
            before == args.chunks
            after == ret.value.chunks
        IN  /\ after.kind = before.kind
            /\ IF before.kind = "regular"
               THEN /\ Len(after.shape) = Len(before.shape) + 1
                    /\ after.shape[1] = (IF ifd.planar_configuration = 2 THEN 1 ELSE n)
                    /\ \A i \in 1..Len(before.shape) : after.shape[i + 1] = before.shape[i]
               ELSE /\ Len(after.shapes) = Len(before.shapes) + 1
                    /\ after.shapes[1] = (IF ifd.planar_configuration = 2
                                          THEN [i \in 1..n |-> 1] ELSE <<n>>)
                    /\ \A i \in 1..Len(before.shapes) : after.shapes[i + 1] = before.shapes[i]

\* C4's case: a planar three-sample IFD over a rectilinear spatial geometry.
BandChunkSizeWitness ==
    /\ pc = "done"
    /\ ifd.planar_configuration = 2
    /\ ifd.samples_per_pixel = 3
    /\ ret.value.chunks.kind = "rectilinear"
    /\ ret.value.chunks.shapes[1] = <<1, 1, 1>>

(***************************************************************************)
(* SpecCodecs: _get_codecs applied as _construct_manifest_array calls it   *)
(* (parser.py:233-263), for every combination of predictor, planar         *)
(* configuration, samples per pixel, compression code, vendor tags, JPEG   *)
(* tables, byte order, a one-byte and a four-byte type, and a regular and  *)
(* a rectilinear strip geometry.                                           *)
(***************************************************************************)
\* Predictor codes 1 (none), 2 (horizontal differencing) and 3 (floating point),
\* and 4, a code the translator has no step for.
MaxPredictor == 4

\* Rows per strip 2 over heights 2 (one full strip) and 3 (a short last strip).
CodecGeometryIfds ==
    { b \in StripIfds : b.rows_per_strip = 2 /\ b.image_width = 2 /\ b.image_height \in {2, 3} }

SampleTypes == { [format |-> 1, bits |-> 8], [format |-> 3, bits |-> 32] }

\* shape, chunks and dtype as _construct_manifest_array has them when it calls
\* _get_codecs.
CodecArgs(ifd_, endian_) ==
    LET shape == <<ifd_.image_height, ifd_.image_width>>
        chunks == _get_chunks_from_strips(ifd_, ifd_.image_height).value.chunks
        dtype == _get_dtype(ifd_.sample_format, ifd_.bits_per_sample, endian_).value
        added == _add_dim_for_samples_per_pixel(ifd_, shape, chunks)
    IN  IF ifd_.samples_per_pixel > 1
        THEN [shape |-> added.shape, chunks |-> added.chunks, dtype |-> dtype]
        ELSE [shape |-> shape, chunks |-> chunks, dtype |-> dtype]

InitCodecs ==
    /\ pc = "call"
    /\ \E base \in CodecGeometryIfds, pred \in 1..MaxPredictor, p \in PlanarConfigurations,
          n \in 1..MaxSamples, c \in {1} \cup CompressionCodes, tags \in OtherTags,
          jt \in JpegTables, t \in SampleTypes :
          ifd = [base EXCEPT !.predictor = pred, !.planar_configuration = p,
                             !.samples_per_pixel = n, !.compression = c,
                             !.other_tags = tags,
                             !.has_jpeg_tables = jt.has, !.jpeg_tables = jt.tables,
                             !.sample_format = [i \in 1..n |-> t.format],
                             !.bits_per_sample = [i \in 1..n |-> t.bits]]
    /\ endian \in Endians
    /\ args = CodecArgs(ifd, endian)
    /\ ret = None
    /\ codec = None
    /\ data = None
    /\ NoDirectory

get_codecs ==
    /\ pc = "call"
    /\ ret' = _get_codecs(ifd, args.shape, args.chunks, args.dtype, endian)
    /\ pc' = "done"
    /\ UNCHANGED <<ifd, endian, args, codec, data, directory>>

NextCodecs == get_codecs

SpecCodecs == InitCodecs /\ [][NextCodecs]_vars

\* The classes of a pipeline's steps, in order.
Classes(codecs) == [i \in 1..Len(codecs) |-> codecs[i].cls]

\* C6: every pipeline _get_codecs returns is ordered by category: array-to-array
\* steps first, then exactly one array-to-bytes step, then bytes-to-bytes steps;
\* the sequence is [delta or float predictor, if any] + ([transpose, chunky] or
\* [bytes]) + [truncate, if rectilinear] + [compressor, if compression > 1].
PipelineOrder ==
    (pc = "done" /\ Returned(ret)) =>
        LET codecs == ret.value
            interleaved == ifd.planar_configuration = 1 /\ ifd.samples_per_pixel > 1
            expected ==
                (IF ifd.predictor = 2 THEN <<"HorizontalDeltaCodec">>
                 ELSE IF ifd.predictor = 3 THEN <<"FloatPredCodec">> ELSE <<>>)
                \o (IF interleaved THEN <<"TransposeCodec", "ChunkyCodec">>
                    ELSE <<"BytesCodec">>)
                \o (IF args.chunks.kind = "rectilinear" THEN <<"TruncateCodec">> ELSE <<>>)
                \o (IF ifd.compression > 1
                    THEN <<IF IsZstd(ifd.compression) THEN "ZstdCodec"
                           ELSE COMPRESSORS[ifd.compression]>>
                    ELSE <<>>)
        IN  /\ Classes(codecs) = expected
            /\ \E k \in 1..Len(codecs) :
                  /\ codecs[k].category = "array_bytes"
                  /\ \A i \in 1..(k - 1) : codecs[i].category = "array_array"
                  /\ \A i \in (k + 1)..Len(codecs) : codecs[i].category = "bytes_bytes"

\* C6's case: a pipeline with a predictor, transpose + chunky, truncate and a
\* compressor.
PipelineOrderWitness ==
    /\ pc = "done"
    /\ Returned(ret)
    /\ Len(ret.value) = 5
    /\ ret.value[2].cls = "TransposeCodec"
    /\ ret.value[4].cls = "TruncateCodec"

(***************************************************************************)
(* Codec serialization: to_dict and from_dict of the codec classes of      *)
(* codecs.py and imagecodecs.py.  A name with a prefix is the pair of its  *)
(* prefix and the rest, so that startswith and removeprefix are what they  *)
(* are on strings.                                                         *)
(***************************************************************************)
CODEC_PREFIX == "imagecodecs."

PlainName(name) == [prefix |-> "", id |-> name]

\* expected_name=None: no name is expected
NoName == [prefix |-> "", id |-> ""]

\* imagecodecs.py: the codec_name of the wrapper classes Delta and LZW
\* (CODEC_PREFIX + "delta", CODEC_PREFIX + "lzw").
ClassCodecName(cls) ==
    CASE cls = "LZW" -> [prefix |-> CODEC_PREFIX, id |-> "lzw"]
      [] cls = "Delta" -> [prefix |-> CODEC_PREFIX, id |-> "delta"]
      [] OTHER -> PlainName(cls)

ClassCategory(cls) == IF cls = "Delta" THEN "array_array" ELSE "bytes_bytes"

\* imagecodecs.py: _expect_name_prefix
_expect_name_prefix(codec_name) ==
    IF codec_name.prefix # CODEC_PREFIX
    THEN Raise("ValueError", "Expected name to start with 'imagecodecs.'")
    ELSE Return(codec_name.id)

\* zarr.core.common.parse_named_configuration(data, expected_name,
\* require_configuration=...).  The parsed configuration is None
\* (is_none) when the data has none and none is required.
parse_named_configuration(data_, expected_name, require_configuration) ==
    IF "name" \notin DOMAIN data_
    THEN Raise("ValueError", "Named configuration does not have a 'name' key")
    ELSE IF expected_name # NoName /\ data_.name # expected_name
    THEN Raise("ValueError", "Expected the expected name")
    ELSE IF "configuration" \in DOMAIN data_
    THEN Return([name |-> data_.name, is_none |-> FALSE,
                 configuration |-> data_.configuration])
    ELSE IF require_configuration
    THEN Raise("ValueError", "Named configuration requires a 'configuration' key")
    ELSE Return([name |-> data_.name, is_none |-> TRUE, configuration |-> EmptyDict])

\* imagecodecs.py: _NumcodecsCodec.__init__(**codec_config) of class cls
_NumcodecsCodec(cls, codec_config) ==
    LET unprefixed_codec_name == _expect_name_prefix(ClassCodecName(cls))
    IN  IF ~Returned(unprefixed_codec_name)
        THEN unprefixed_codec_name
        ELSE IF "id" \notin DOMAIN codec_config
        THEN Return([cls |-> cls, category |-> ClassCategory(cls),
                     codec_name |-> ClassCodecName(cls),
                     configuration |-> ("id" :> unprefixed_codec_name.value) @@ codec_config])
        ELSE IF codec_config["id"] # unprefixed_codec_name.value
        THEN Raise("ValueError", "Codec id does not match")
        ELSE Return([cls |-> cls, category |-> ClassCategory(cls),
                     codec_name |-> ClassCodecName(cls),
                     configuration |-> codec_config])

\* imagecodecs.py: _parse_codec_configuration
_parse_codec_configuration(data_) ==
    LET parsed == parse_named_configuration(data_, NoName, TRUE)
    IN  IF ~Returned(parsed)
        THEN parsed
        ELSE IF parsed.value.name.prefix # CODEC_PREFIX
        THEN Raise("ValueError", "Expected name to start with 'imagecodecs.'")
        ELSE Return(parsed.value.configuration
                    @@ ("id" :> _expect_name_prefix(parsed.value.name).value))

\* imagecodecs.py: _NumcodecsCodec.to_dict
_NumcodecsCodec_to_dict(self) ==
    [name |-> self.codec_name, configuration |-> self.configuration]

\* imagecodecs.py: _NumcodecsCodec.from_dict (classmethod of class cls)
_NumcodecsCodec_from_dict(cls, data_) ==
    LET codec_config == _parse_codec_configuration(data_)
    IN  IF ~Returned(codec_config)
        THEN codec_config
        ELSE _NumcodecsCodec(cls, codec_config.value)

\* codecs.py: ChunkyCodec.to_dict
ChunkyCodec_to_dict(self) == [name |-> PlainName("ChunkyCodec")]

\* cls(**configuration_parsed) of ChunkyCodec: endian defaults to "little".
ChunkyCodec_from_kwargs(kwargs) == ChunkyCodec(DictGet(kwargs, "endian", "little"))

\* codecs.py: ChunkyCodec.from_dict
ChunkyCodec_from_dict(data_) ==
    LET parsed == parse_named_configuration(data_, PlainName("ChunkyCodec"), FALSE)
    IN  IF ~Returned(parsed)
        THEN parsed
        ELSE ChunkyCodec_from_kwargs(IF parsed.value.is_none
                                     THEN EmptyDict
                                     ELSE parsed.value.configuration)

\* codecs.py: HorizontalDeltaCodec.to_dict
HorizontalDeltaCodec_to_dict(self) == [name |-> PlainName("HorizontalDeltaCodec")]

\* codecs.py: HorizontalDeltaCodec.from_dict
HorizontalDeltaCodec_from_dict(data_) ==
    LET parsed == parse_named_configuration(data_, PlainName("HorizontalDeltaCodec"), FALSE)
    IN  IF ~Returned(parsed)
        THEN parsed
        ELSE IF parsed.value.is_none \/ parsed.value.configuration = EmptyDict
        THEN Return(HorizontalDeltaCodec)
        ELSE Raise("TypeError", "__init__() got an unexpected keyword argument")

\* cls(**kwargs), c.to_dict() and cls.from_dict(data) by the class of the codec.
Construct(cls, kwargs) ==
    CASE cls = "ChunkyCodec" -> ChunkyCodec_from_kwargs(kwargs)
      [] cls = "HorizontalDeltaCodec" -> Return(HorizontalDeltaCodec)
      [] OTHER -> _NumcodecsCodec(cls, kwargs)

to_dict(self) ==
    CASE self.cls = "ChunkyCodec" -> ChunkyCodec_to_dict(self)
      [] self.cls = "HorizontalDeltaCodec" -> HorizontalDeltaCodec_to_dict(self)
      [] OTHER -> _NumcodecsCodec_to_dict(self)

from_dict(cls, data_) ==
    CASE cls = "ChunkyCodec" -> ChunkyCodec_from_dict(data_)
      [] cls = "HorizontalDeltaCodec" -> HorizontalDeltaCodec_from_dict(data_)
      [] OTHER -> _NumcodecsCodec_from_dict(cls, data_)

(***************************************************************************)
(* SpecRoundTrip: a codec of each class is constructed from keyword        *)
(* arguments, serialized with to_dict and reconstructed with from_dict.    *)
(***************************************************************************)
DeltaDtypes == {"|u1", "<u2", "<f4"}

OptionalKey(key, values) == {EmptyDict} \cup { (key :> v) : v \in values }

CodecCalls ==
    { [cls |-> "ChunkyCodec", kwargs |-> k] : k \in OptionalKey("endian", Endian) }
    \cup { [cls |-> "HorizontalDeltaCodec", kwargs |-> EmptyDict] }
    \cup { [cls |-> "LZW", kwargs |-> k] : k \in OptionalKey("id", {"lzw", "delta"}) }
    \cup { [cls |-> "Delta", kwargs |-> i @@ d @@ a] :
             i \in OptionalKey("id", {"delta"}),
             d \in OptionalKey("dtype", DeltaDtypes),
             a \in OptionalKey("astype", DeltaDtypes) }

InitRoundTrip ==
    /\ pc = "call"
    /\ ifd = BaseIfd
    /\ endian = "little"
    /\ args \in CodecCalls
    /\ ret = None
    /\ codec = None
    /\ data = None
    /\ NoDirectory

\* cls(**kwargs): the codec, or the error of its constructor
construct ==
    /\ pc = "call"
    /\ LET made == Construct(args.cls, args.kwargs)
       IN  IF Returned(made)
           THEN /\ codec' = made.value
                /\ pc' = "codec"
                /\ ret' = ret
           ELSE /\ ret' = made
                /\ pc' = "raised"
                /\ codec' = codec
    /\ UNCHANGED <<ifd, endian, args, data, directory>>

serialize ==
    /\ pc = "codec"
    /\ data' = to_dict(codec)
    /\ pc' = "dict"
    /\ UNCHANGED <<ifd, endian, args, ret, codec, directory>>

deserialize ==
    /\ pc = "dict"
    /\ ret' = from_dict(args.cls, data)
    /\ pc' = "done"
    /\ UNCHANGED <<ifd, endian, args, codec, data, directory>>

NextRoundTrip == construct \/ serialize \/ deserialize

SpecRoundTrip == InitRoundTrip /\ [][NextRoundTrip]_vars

\* C5: for every codec step c this package defines (ChunkyCodec with endian big
\* or little, HorizontalDeltaCodec, the imagecodecs-prefixed numcodecs wrappers),
\* from_dict(to_dict(c)) equals c.
CodecRoundTrip ==
    pc = "done" => (Returned(ret) /\ ret.value = codec)

(***************************************************************************)
(* parser.py: _get_chunks_from_tiles                                       *)
(***************************************************************************)
_get_chunks_from_tiles(ifd_) ==
    [chunks |-> Regular(<<ifd_.tile_height, ifd_.tile_width>>),
     offsets |-> ifd_.tile_offsets,
     byte_counts |-> ifd_.tile_byte_counts]

(***************************************************************************)
(* numpy arrays: an N-dimensional array is a function from the index       *)
(* tuples (0-based) of its shape; reshape fills it in row-major order.     *)
(***************************************************************************)
MaxOf(shp) == IF shp = <<>> THEN 0
              ELSE CHOOSE m \in {shp[i] : i \in 1..Len(shp)} :
                      \A i \in 1..Len(shp) : shp[i] <= m

IndexSet(shp) ==
    { idx \in [1..Len(shp) -> 0..(MaxOf(shp) - 1)] : \A i \in 1..Len(shp) : idx[i] < shp[i] }

RECURSIVE RowMajor(_, _, _)
\* The flat (0-based) position of idx[1..k] in an array of shape shp.
RowMajor(idx, shp, k) ==
    IF k = 0 THEN 0 ELSE RowMajor(idx, shp, k - 1) * shp[k] + idx[k]

\* A variant of reshape that fills the array in column-major (Fortran) order.
reshape_column_major(flat, shp) ==
    IF Len(flat) # ProdSeq(shp)
    THEN Raise("ValueError", "cannot reshape array")
    ELSE Return([idx \in IndexSet(shp) |->
                    flat[idx[1]
                         + (IF Len(shp) >= 2 THEN shp[1] * idx[2] ELSE 0)
                         + (IF Len(shp) >= 3 THEN shp[1] * shp[2] * idx[3] ELSE 0)
                         + 1]])

\* numpy.ndarray.reshape(shp) of a flat array
reshape(flat, shp) ==
    IF Len(flat) # ProdSeq(shp)
    THEN Raise("ValueError", "cannot reshape array")
    ELSE Return([idx \in IndexSet(shp) |-> flat[RowMajor(idx, shp, Len(shp)) + 1]])

\* numpy.all(a == 0)
AllZero(a) == \A i \in 1..Len(a) : a[i] = 0

(***************************************************************************)
(* parser.py: _construct_chunk_manifest.  The manifest                     *)
(* (ChunkManifest.from_arrays) is its grid shape and, for every cell, the  *)
(* path, offset and length of the cell.                                    *)
(***************************************************************************)
\* A variant of _construct_chunk_manifest that rejects the arrays only when both
\* are all zero.
_construct_chunk_manifest_both_zero(path, shape, chunks, offsets, byte_counts) ==
    LET items == ChunkItems(chunks)
        n == Min(Len(shape), Len(items))
        zero_chunk == chunks.kind = "regular" /\ \E i \in 1..n : items[i] = 0
        chunk_manifest_shape ==
            [i \in 1..n |-> IF chunks.kind = "regular"
                            THEN CeilDiv(shape[i], items[i])
                            ELSE Len(items[i])]
        offsets_nd == reshape(offsets, chunk_manifest_shape)
        byte_counts_nd == reshape(byte_counts, chunk_manifest_shape)
    IN  IF zero_chunk
        THEN Raise("ZeroDivisionError", "division by zero")
        ELSE IF AllZero(offsets) /\ AllZero(byte_counts)
        THEN Raise("NotImplementedError",
                   "TIFFs without byte counts and offsets aren't supported")
        ELSE IF ~Returned(offsets_nd)
        THEN offsets_nd
        ELSE IF ~Returned(byte_counts_nd)
        THEN byte_counts_nd
        ELSE Return([shape |-> chunk_manifest_shape,
                     entries |-> [idx \in IndexSet(chunk_manifest_shape) |->
                                    [path |-> path,
                                     offset |-> offsets_nd.value[idx],
                                     length |-> byte_counts_nd.value[idx]]]])

_construct_chunk_manifest(path, shape, chunks, offsets, byte_counts) ==
    LET items == ChunkItems(chunks)
        n == Min(Len(shape), Len(items))
        zero_chunk == chunks.kind = "regular" /\ \E i \in 1..n : items[i] = 0
        chunk_manifest_shape ==
            [i \in 1..n |-> IF chunks.kind = "regular"
                            THEN CeilDiv(shape[i], items[i])
                            ELSE Len(items[i])]
        offsets_nd == reshape(offsets, chunk_manifest_shape)
        byte_counts_nd == reshape(byte_counts, chunk_manifest_shape)
    IN  IF zero_chunk
        THEN Raise("ZeroDivisionError", "division by zero")
        ELSE IF AllZero(offsets) \/ AllZero(byte_counts)
        THEN Raise("NotImplementedError",
                   "TIFFs without byte counts and offsets aren't supported")
        ELSE IF ~Returned(offsets_nd)
        THEN offsets_nd
        ELSE IF ~Returned(byte_counts_nd)
        THEN byte_counts_nd
        ELSE Return([shape |-> chunk_manifest_shape,
                     entries |-> [idx \in IndexSet(chunk_manifest_shape) |->
                                    [path |-> path,
                                     offset |-> offsets_nd.value[idx],
                                     length |-> byte_counts_nd.value[idx]]]])

(***************************************************************************)
(* utils.py: gdal_metadata_to_dict                                         *)
(***************************************************************************)
Whitespace == {" ", "\n", "\t"}

RECURSIVE lstrip(_)
lstrip(text) == IF text # <<>> /\ Head(text) \in Whitespace THEN lstrip(Tail(text)) ELSE text

RECURSIVE rstrip(_)
rstrip(text) ==
    IF text # <<>> /\ text[Len(text)] \in Whitespace
    THEN rstrip(SubSeq(text, 1, Len(text) - 1))
    ELSE text

\* str.strip()
strip(text) == rstrip(lstrip(text))

RECURSIVE gdal_metadata_to_dict(_)
gdal_metadata_to_dict(xml) ==
    IF xml = <<>>
    THEN EmptyDict
    ELSE LET item == xml[Len(xml)]
             earlier == gdal_metadata_to_dict(SubSeq(xml, 1, Len(xml) - 1))
         IN  IF item.name # ""
             THEN (item.name :> strip(item.text)) @@ earlier
             ELSE earlier

(***************************************************************************)
(* parser.py: _get_attributes.  The GeoTIFF keys of the allow-list         *)
(* GEO_KEYS (constants.py, not among the source files) are the keys the    *)
(* modelled geo_key_directory carries.                                     *)
(***************************************************************************)
_parse_geo_key_directory(geo_key_directory) ==
    LET present == { key \in DOMAIN geo_key_directory : geo_key_directory[key] # 0 }
    IN  [key \in present |-> geo_key_directory[key]]

_get_attributes(ifd_) ==
    LET geo == _parse_geo_key_directory(ifd_.geo_key_directory)
        scale == IF ifd_.model_pixel_scale # <<>>
                 THEN ("model_pixel_scale" :> ifd_.model_pixel_scale) ELSE EmptyDict
        tiepoint == IF ifd_.model_tiepoint # <<>>
                    THEN ("model_tiepoint" :> ifd_.model_tiepoint) ELSE EmptyDict
        photometric == IF ifd_.photometric_interpretation # 0
                       THEN ("photometric_interpretation" :> ifd_.photometric_interpretation)
                       ELSE EmptyDict
        attrs == photometric @@ tiepoint @@ scale @@ geo
        with_gdal == IF ifd_.gdal_metadata # <<>>
                     THEN gdal_metadata_to_dict(ifd_.gdal_metadata) @@ attrs
                     ELSE attrs
    IN  IF ifd_.gdal_nodata # ""
        THEN ("gdal_no_data" :> ifd_.gdal_nodata) @@ with_gdal
        ELSE with_gdal

(***************************************************************************)
(* parser.py: _construct_manifest_array.  The outcome carries, besides the *)
(* array or the error, the helper calls made up to it, in order (ran).     *)
(***************************************************************************)
Ran(outcome, ran) == outcome @@ ("ran" :> ran)

\* A variant of _construct_manifest_array that resolves the dtype before it looks
\* for sub-IFDs.
_construct_manifest_array_dtype_first(ifd_, path, endian_) ==
    LET shape2d == <<ifd_.image_height, ifd_.image_width>>
        dtype == _get_dtype(ifd_.sample_format, ifd_.bits_per_sample, endian_)
        tiled == ifd_.tile_height # 0
        layout == IF tiled
                  THEN Return(_get_chunks_from_tiles(ifd_))
                  ELSE _get_chunks_from_strips(ifd_, shape2d[1])
        layout_call == IF tiled THEN "_get_chunks_from_tiles" ELSE "_get_chunks_from_strips"
        multi == ifd_.samples_per_pixel > 1
        added == _add_dim_for_samples_per_pixel(ifd_, shape2d, layout.value.chunks)
        shape == IF multi THEN added.shape ELSE shape2d
        chunks == IF multi THEN added.chunks ELSE layout.value.chunks
        dimension_names == IF multi THEN <<"band", "y", "x">> ELSE <<"y", "x">>
        ran_geometry == <<"_get_dtype", layout_call>>
                        \o (IF multi THEN <<"_add_dim_for_samples_per_pixel">> ELSE <<>>)
        chunk_manifest == _construct_chunk_manifest(path, shape, chunks,
                                                    layout.value.offsets,
                                                    layout.value.byte_counts)
        codecs == _get_codecs(ifd_, shape, chunks, dtype.value, endian_)
        attributes == _get_attributes(ifd_)
        nested == DictGet(attributes, "number_of_nested_grids", <<>>)
        chunk_grid == IF chunks.kind = "regular"
                      THEN [name |-> "regular",
                            configuration |-> [chunk_shape |-> chunks.shape]]
                      ELSE [name |-> "rectilinear",
                            configuration |-> [chunk_shapes |-> chunks.shapes,
                                               kind |-> "inline"]]
        metadata == [shape |-> shape,
                     data_type |-> dtype.value,
                     chunk_grid |-> chunk_grid,
                     chunk_key_encoding |-> [name |-> "default"],
                     fill_value |-> 0,
                     codecs |-> codecs.value,
                     attributes |-> attributes,
                     dimension_names |-> dimension_names]
    IN  IF ~Returned(dtype)
        THEN Ran(dtype, <<"_get_dtype">>)
        ELSE IF DictGet(ifd_.other_tags, SubIfdKey, <<>>) # <<>>
        THEN Ran(Raise("NotImplementedError", "TIFFs with Sub-IFDs are not yet supported."),
                 <<"_get_dtype">>)
        ELSE IF ~tiled /\ ifd_.rows_per_strip = 0
        THEN Ran(Raise("NotImplementedError",
                       "TIFFs without byte counts and offsets aren't supported"),
                 <<"_get_dtype">>)
        ELSE IF ~Returned(layout)
        THEN Ran(layout, <<"_get_dtype", layout_call>>)
        ELSE IF ifd_.photometric_interpretation \in {6, 8}
        THEN Ran(RaiseF("NotImplementedError",
                        "{name} PhotometricInterpretation is not yet supported.",
                        ifd_.photometric_interpretation),
                 <<"_get_dtype", layout_call>>)
        ELSE IF ~Returned(chunk_manifest)
        THEN Ran(chunk_manifest, ran_geometry \o <<"_construct_chunk_manifest">>)
        ELSE IF ~Returned(codecs)
        THEN Ran(codecs, ran_geometry \o <<"_construct_chunk_manifest", "_get_codecs">>)
        ELSE IF nested # <<>>
        THEN Ran(RaiseF("NotImplementedError",
                        "Nested grids are not supported, but file has {nested} nested grid based on GDAL metadata.",
                        nested),
                 ran_geometry \o <<"_construct_chunk_manifest", "_get_codecs",
                                   "_get_attributes">>)
        ELSE Ran(Return([metadata |-> metadata, chunkmanifest |-> chunk_manifest.value]),
                 ran_geometry \o <<"_construct_chunk_manifest", "_get_codecs",
                                   "_get_attributes">>)

\* A variant of _construct_manifest_array that prefers the strip layout when an
\* IFD has both tile dimensions and rows-per-strip.
_construct_manifest_array_strips_first(ifd_, path, endian_) ==
    LET shape2d == <<ifd_.image_height, ifd_.image_width>>
        dtype == _get_dtype(ifd_.sample_format, ifd_.bits_per_sample, endian_)
        tiled == ifd_.tile_height # 0 /\ ifd_.rows_per_strip = 0
        layout == IF tiled
                  THEN Return(_get_chunks_from_tiles(ifd_))
                  ELSE _get_chunks_from_strips(ifd_, shape2d[1])
        layout_call == IF tiled THEN "_get_chunks_from_tiles" ELSE "_get_chunks_from_strips"
        multi == ifd_.samples_per_pixel > 1
        added == _add_dim_for_samples_per_pixel(ifd_, shape2d, layout.value.chunks)
        shape == IF multi THEN added.shape ELSE shape2d
        chunks == IF multi THEN added.chunks ELSE layout.value.chunks
        dimension_names == IF multi THEN <<"band", "y", "x">> ELSE <<"y", "x">>
        ran_geometry == <<"_get_dtype", layout_call>>
                        \o (IF multi THEN <<"_add_dim_for_samples_per_pixel">> ELSE <<>>)
        chunk_manifest == _construct_chunk_manifest(path, shape, chunks,
                                                    layout.value.offsets,
                                                    layout.value.byte_counts)
        codecs == _get_codecs(ifd_, shape, chunks, dtype.value, endian_)
        attributes == _get_attributes(ifd_)
        nested == DictGet(attributes, "number_of_nested_grids", <<>>)
        chunk_grid == IF chunks.kind = "regular"
                      THEN [name |-> "regular",
                            configuration |-> [chunk_shape |-> chunks.shape]]
                      ELSE [name |-> "rectilinear",
                            configuration |-> [chunk_shapes |-> chunks.shapes,
                                               kind |-> "inline"]]
        metadata == [shape |-> shape,
                     data_type |-> dtype.value,
                     chunk_grid |-> chunk_grid,
                     chunk_key_encoding |-> [name |-> "default"],
                     fill_value |-> 0,
                     codecs |-> codecs.value,
                     attributes |-> attributes,
                     dimension_names |-> dimension_names]
    IN  IF DictGet(ifd_.other_tags, SubIfdKey, <<>>) # <<>>
        THEN Ran(Raise("NotImplementedError", "TIFFs with Sub-IFDs are not yet supported."),
                 <<>>)
        ELSE IF ~Returned(dtype)
        THEN Ran(dtype, <<"_get_dtype">>)
        ELSE IF ~tiled /\ ifd_.rows_per_strip = 0
        THEN Ran(Raise("NotImplementedError",
                       "TIFFs without byte counts and offsets aren't supported"),
                 <<"_get_dtype">>)
        ELSE IF ~Returned(layout)
        THEN Ran(layout, <<"_get_dtype", layout_call>>)
        ELSE IF ifd_.photometric_interpretation \in {6, 8}
        THEN Ran(RaiseF("NotImplementedError",
                        "{name} PhotometricInterpretation is not yet supported.",
                        ifd_.photometric_interpretation),
                 <<"_get_dtype", layout_call>>)
        ELSE IF ~Returned(chunk_manifest)
        THEN Ran(chunk_manifest, ran_geometry \o <<"_construct_chunk_manifest">>)
        ELSE IF ~Returned(codecs)
        THEN Ran(codecs, ran_geometry \o <<"_construct_chunk_manifest", "_get_codecs">>)
        ELSE IF nested # <<>>
        THEN Ran(RaiseF("NotImplementedError",
                        "Nested grids are not supported, but file has {nested} nested grid based on GDAL metadata.",
                        nested),
                 ran_geometry \o <<"_construct_chunk_manifest", "_get_codecs",
                                   "_get_attributes">>)
        ELSE Ran(Return([metadata |-> metadata, chunkmanifest |-> chunk_manifest.value]),
                 ran_geometry \o <<"_construct_chunk_manifest", "_get_codecs",
                                   "_get_attributes">>)

_construct_manifest_array(ifd_, path, endian_) ==
    LET shape2d == <<ifd_.image_height, ifd_.image_width>>
        dtype == _get_dtype(ifd_.sample_format, ifd_.bits_per_sample, endian_)
        tiled == ifd_.tile_height # 0
        layout == IF tiled
                  THEN Return(_get_chunks_from_tiles(ifd_))
                  ELSE _get_chunks_from_strips(ifd_, shape2d[1])
        layout_call == IF tiled THEN "_get_chunks_from_tiles" ELSE "_get_chunks_from_strips"
        multi == ifd_.samples_per_pixel > 1
        added == _add_dim_for_samples_per_pixel(ifd_, shape2d, layout.value.chunks)
        shape == IF multi THEN added.shape ELSE shape2d
        chunks == IF multi THEN added.chunks ELSE layout.value.chunks
        dimension_names == IF multi THEN <<"band", "y", "x">> ELSE <<"y", "x">>
        ran_geometry == <<"_get_dtype", layout_call>>
                        \o (IF multi THEN <<"_add_dim_for_samples_per_pixel">> ELSE <<>>)
        chunk_manifest == _construct_chunk_manifest(path, shape, chunks,
                                                    layout.value.offsets,
                                                    layout.value.byte_counts)
        codecs == _get_codecs(ifd_, shape, chunks, dtype.value, endian_)
        attributes == _get_attributes(ifd_)
        nested == DictGet(attributes, "number_of_nested_grids", <<>>)
        chunk_grid == IF chunks.kind = "regular"
                      THEN [name |-> "regular",
                            configuration |-> [chunk_shape |-> chunks.shape]]
                      ELSE [name |-> "rectilinear",
                            configuration |-> [chunk_shapes |-> chunks.shapes,
                                               kind |-> "inline"]]
        metadata == [shape |-> shape,
                     data_type |-> dtype.value,
                     chunk_grid |-> chunk_grid,
                     chunk_key_encoding |-> [name |-> "default"],
                     fill_value |-> 0,
                     codecs |-> codecs.value,
                     attributes |-> attributes,
                     dimension_names |-> dimension_names]
    IN  IF DictGet(ifd_.other_tags, SubIfdKey, <<>>) # <<>>
        THEN Ran(Raise("NotImplementedError", "TIFFs with Sub-IFDs are not yet supported."),
                 <<>>)
        ELSE IF ~Returned(dtype)
        THEN Ran(dtype, <<"_get_dtype">>)
        ELSE IF ~tiled /\ ifd_.rows_per_strip = 0
        THEN Ran(Raise("NotImplementedError",
                       "TIFFs without byte counts and offsets aren't supported"),
                 <<"_get_dtype">>)
        ELSE IF ~Returned(layout)
        THEN Ran(layout, <<"_get_dtype", layout_call>>)
        ELSE IF ifd_.photometric_interpretation \in {6, 8}
        THEN Ran(RaiseF("NotImplementedError",
                        "{name} PhotometricInterpretation is not yet supported.",
                        ifd_.photometric_interpretation),
                 <<"_get_dtype", layout_call>>)
        ELSE IF ~Returned(chunk_manifest)
        THEN Ran(chunk_manifest, ran_geometry \o <<"_construct_chunk_manifest">>)
        ELSE IF ~Returned(codecs)
        THEN Ran(codecs, ran_geometry \o <<"_construct_chunk_manifest", "_get_codecs">>)
        ELSE IF nested # <<>>
        THEN Ran(RaiseF("NotImplementedError",
                        "Nested grids are not supported, but file has {nested} nested grid based on GDAL metadata.",
                        nested),
                 ran_geometry \o <<"_construct_chunk_manifest", "_get_codecs",
                                   "_get_attributes">>)
        ELSE Ran(Return([metadata |-> metadata, chunkmanifest |-> chunk_manifest.value]),
                 ran_geometry \o <<"_construct_chunk_manifest", "_get_codecs",
                                   "_get_attributes">>)

(***************************************************************************)
(* Spec: _construct_manifest_array applied to one IFD of three families.   *)
(*   GeometryIfd: every image of 1..MaxDim x 1..MaxDim pixels, tiled      *)
(*     (tiles of 1..MaxTile x 1..MaxTile, with or without rows-per-strip), *)
(*     stripped (1..MaxDim+1 rows per strip) or with neither layout, with  *)
(*     1..MaxSamples samples per pixel in either planar configuration and  *)
(*     every pattern of ArrayPatterns for its offsets and byte counts.     *)
(*   TagIfd: three geometries (tiled, stripped with a short last strip,   *)
(*     no layout) crossed with the tags the translator reads.              *)
(*   TileScenarioIfd: single-band images of 256 x 256 tiles.               *)
(***************************************************************************)
MaxDim == 3
MaxTile == 2

\* The number of chunks the file of an IFD holds: one per tile or strip, and per
\* sample plane when planar.
ExpectedChunks(ifd_) ==
    LET planes == IF ifd_.planar_configuration = 2 THEN ifd_.samples_per_pixel ELSE 1
    IN  IF ifd_.tile_height # 0
        THEN CeilDiv(ifd_.image_height, ifd_.tile_height)
             * CeilDiv(ifd_.image_width, ifd_.tile_width) * planes
        ELSE IF ifd_.rows_per_strip # 0
        THEN CeilDiv(ifd_.image_height, Min(ifd_.rows_per_strip, ifd_.image_height)) * planes
        ELSE 0

ZeroAt(a, K) == [i \in 1..Len(a) |-> IF i \in K THEN 0 ELSE a[i]]

Arrays(o, b) == [offsets |-> o, byte_counts |-> b]

\* Offsets and byte counts of a file of n chunks: dense; sparse (one chunk with
\* offset and byte count 0); a zero offset or a zero byte count alone; all-zero
\* offsets or byte counts; both or one of them empty; one entry more than the
\* grid has cells.
ArrayPatterns(n) ==
    { Arrays(DenseOffsets(n), DenseByteCounts(n)),
      Arrays(ZeroAt(DenseOffsets(n), {1}), DenseByteCounts(n)),
      Arrays(DenseOffsets(n), ZeroAt(DenseByteCounts(n), {n})),
      Arrays(ZeroAt(DenseOffsets(n), 1..n), DenseByteCounts(n)),
      Arrays(DenseOffsets(n), ZeroAt(DenseByteCounts(n), 1..n)),
      Arrays(<<>>, <<>>),
      Arrays(<<>>, DenseByteCounts(n)),
      Arrays(DenseOffsets(n), <<>>),
      Arrays(DenseOffsets(n + 1), DenseByteCounts(n + 1)) }
    \cup { Arrays(ZeroAt(DenseOffsets(n), {k}), ZeroAt(DenseByteCounts(n), {k})) : k \in 1..n }

\* The IFD with the offsets and byte counts of its layout set.
WithArrays(ifd_, a) ==
    IF ifd_.tile_height # 0
    THEN [ifd_ EXCEPT !.tile_offsets = a.offsets, !.tile_byte_counts = a.byte_counts,
                      !.strip_offsets = <<>>, !.strip_byte_counts = <<>>]
    ELSE [ifd_ EXCEPT !.strip_offsets = a.offsets, !.strip_byte_counts = a.byte_counts]

Layouts ==
    { [tile_height |-> th, tile_width |-> tw, rows_per_strip |-> S] :
        th \in 1..MaxTile, tw \in 1..MaxTile, S \in {0, 1} }
    \cup { [tile_height |-> 0, tile_width |-> 0, rows_per_strip |-> S] : S \in 0..(MaxDim + 1) }

LayoutIfd(H, W, l, n, p) ==
    [BaseIfd EXCEPT !.image_height = H, !.image_width = W,
                    !.tile_height = l.tile_height, !.tile_width = l.tile_width,
                    !.rows_per_strip = l.rows_per_strip,
                    !.samples_per_pixel = n, !.planar_configuration = p,
                    !.sample_format = [i \in 1..n |-> 1],
                    !.bits_per_sample = [i \in 1..n |-> 8]]

\* ifd is an IFD of the geometry family.
GeometryIfd ==
    \E H \in 1..MaxDim, W \in 1..MaxDim, l \in Layouts,
       n \in 1..MaxSamples, p \in PlanarConfigurations :
       LET b == LayoutIfd(H, W, l, n, p)
       IN  \E a \in ArrayPatterns(ExpectedChunks(b)) : ifd = WithArrays(b, a)

\* A 2 x 2 image of 1 x 2 tiles, a 3 x 2 image of two-row strips, a 2 x 2 image
\* with neither tiles nor strips.
TagLayouts ==
    { [image_height |-> 2, tile_height |-> 1, tile_width |-> 2, rows_per_strip |-> 0],
      [image_height |-> 3, tile_height |-> 0, tile_width |-> 0, rows_per_strip |-> 2],
      [image_height |-> 2, tile_height |-> 0, tile_width |-> 0, rows_per_strip |-> 0] }

TagSampleTypes == SampleTypes \cup { [format |-> 4, bits |-> 8] }

TagCompressions == {1, 5, 7, 50000, 32767}

PhotometricInterpretations == {1, 6, 8}

TagOtherTags ==
    { EmptyDict, (ZstdLevelKey :> 1), (SubIfdKey :> <<64>>), (SubIfdKey :> <<>>) }

TagJpegTables == { jt \in JpegTables : jt.has = (jt.tables # <<>>) }

NestedGridsItem(text) == <<[name |-> "number_of_nested_grids", text |-> text]>>

GdalMetadatas == { <<>>, NestedGridsItem(<<"0">>), NestedGridsItem(<<" ", "2">>) }

\* Dense arrays, a sparse last chunk, all-zero offsets.
TagArrays(n) ==
    { Arrays(DenseOffsets(n), DenseByteCounts(n)),
      Arrays(ZeroAt(DenseOffsets(n), {n}), ZeroAt(DenseByteCounts(n), {n})),
      Arrays(ZeroAt(DenseOffsets(n), 1..n), DenseByteCounts(n)) }

\* ifd is an IFD of the tag family.
TagIfd ==
    \E l \in TagLayouts, n \in 1..MaxSamples, p \in PlanarConfigurations,
       t \in TagSampleTypes, pred \in 1..MaxPredictor, c \in TagCompressions,
       ph \in PhotometricInterpretations, tags \in TagOtherTags,
       jt \in TagJpegTables, g \in GdalMetadatas :
       LET b == [BaseIfd EXCEPT !.image_height = l.image_height,
                                !.tile_height = l.tile_height,
                                !.tile_width = l.tile_width,
                                !.rows_per_strip = l.rows_per_strip,
                                !.samples_per_pixel = n, !.planar_configuration = p,
                                !.sample_format = [i \in 1..n |-> t.format],
                                !.bits_per_sample = [i \in 1..n |-> t.bits],
                                !.predictor = pred, !.compression = c,
                                !.photometric_interpretation = ph,
                                !.other_tags = tags,
                                !.has_jpeg_tables = jt.has, !.jpeg_tables = jt.tables,
                                !.gdal_metadata = g]
       IN  \E a \in TagArrays(ExpectedChunks(b)) : ifd = WithArrays(b, a)

\* The sizes of the 256 x 256 tiled images: one tile or two along an axis.
TileScenarioSizes == {256, 512}

\* ifd is a single-band image of 256 x 256 tiles with dense tile arrays,
\* uncompressed or LZW-compressed, without predictor.
TileScenarioIfd ==
    \E H \in TileScenarioSizes, W \in TileScenarioSizes, c \in {1, 5} :
       LET b == [LayoutIfd(H, W, [tile_height |-> 256, tile_width |-> 256,
                                  rows_per_strip |-> 0], 1, 1)
                   EXCEPT !.compression = c]
       IN  ifd = WithArrays(b, Arrays(DenseOffsets(ExpectedChunks(b)),
                                      DenseByteCounts(ExpectedChunks(b))))

Path == "s3://bucket/image.tif"

Init ==
    /\ pc = "call"
    /\ (GeometryIfd \/ TagIfd \/ TileScenarioIfd)
    /\ endian \in Endians
    /\ args = [path |-> Path]
    /\ ret = None
    /\ codec = None
    /\ data = None
    /\ NoDirectory

construct_manifest_array ==
    /\ pc = "call"
    /\ ret' = _construct_manifest_array(ifd, args.path, endian)
    /\ pc' = "done"
    /\ UNCHANGED <<ifd, endian, args, codec, data, directory>>

Next == construct_manifest_array

Spec == Init /\ [][Next]_vars

\* Whether the translation reached the call of a helper.
Reached(call) == \E i \in 1..Len(ret.ran) : ret.ran[i] = call

\* C2: for a tiled IFD (image (H, W), tiles (th, tw)) whose translation succeeds,
\* the manifest's grid is (ceil(H/th), ceil(W/tw)) on the spatial axes (with a
\* leading band axis of n cells when planar and 1 when chunky, for n > 1
\* samples), the manifest has exactly one entry per grid cell, filled from the
\* flat tile offsets and byte counts in row-major order, and every entry carries
\* the path of the file.
TiledManifest ==
    (pc = "done" /\ ifd.tile_height # 0 /\ Returned(ret)) =>
        LET m == ret.value.chunkmanifest
            gh == (ifd.image_height + ifd.tile_height - 1) \div ifd.tile_height
            gw == (ifd.image_width + ifd.tile_width - 1) \div ifd.tile_width
            n == ifd.samples_per_pixel
            k == Len(m.shape)
        IN  /\ k = (IF n > 1 THEN 3 ELSE 2)
            /\ m.shape[k - 1] = gh
            /\ m.shape[k] = gw
            /\ (k = 3) => m.shape[1] = (IF ifd.planar_configuration = 2 THEN n ELSE 1)
            /\ Cardinality(DOMAIN m.entries) = (IF k = 3 THEN m.shape[1] ELSE 1) * gh * gw
            /\ \A idx \in DOMAIN m.entries :
                  LET flat == (IF k = 3 THEN idx[1] * gh * gw ELSE 0)
                              + idx[k - 1] * gw + idx[k] + 1
                  IN  /\ \A i \in 1..k : idx[i] \in 0..(m.shape[i] - 1)
                      /\ m.entries[idx].path = args.path
                      /\ m.entries[idx].offset = ifd.tile_offsets[flat]
                      /\ m.entries[idx].length = ifd.tile_byte_counts[flat]

\* C2's case: a planar two-sample image of 3 x 3 pixels in 2 x 2 tiles has been
\* translated: a grid of 2 x 2 x 2 cells, the last row and column partial.
TiledManifestWitness ==
    /\ pc = "done"
    /\ Returned(ret)
    /\ ifd.tile_height = 2 /\ ifd.tile_width = 2
    /\ ifd.image_height = 3 /\ ifd.image_width = 3
    /\ ret.value.chunkmanifest.shape = <<2, 2, 2>>

\* C3: every manifest _construct_chunk_manifest returns is fully dense: every
\* grid cell's entry has a non-zero byte offset and a non-zero byte length.
ManifestDense ==
    (pc = "done" /\ Returned(ret)) =>
        \A idx \in DOMAIN ret.value.chunkmanifest.entries :
            /\ ret.value.chunkmanifest.entries[idx].offset # 0
            /\ ret.value.chunkmanifest.entries[idx].length # 0

\* C9: for an IFD that passes the checks made before codec assembly and whose
\* compression code is greater than 1 and not in the recognized-compressor
\* table, translation raises ValueError whose message names that tag value; no
\* array descriptor is produced.
UnknownCompressorRaises ==
    (pc = "done" /\ Reached("_get_codecs")
        /\ ifd.compression > 1 /\ ifd.compression \notin DOMAIN COMPRESSORS) =>
        /\ ret.exc = "ValueError"
        /\ ret.msg = "TIFF has compressor tag {compression}, which is not recognized. Please raise an issue for support."
        /\ ret.arg = ifd.compression

\* C9's case: a two-sample IFD with a predictor and a short last strip,
\* otherwise translatable, carries a compression code outside the table.
UnknownCompressorRaisesWitness ==
    /\ pc = "done"
    /\ ifd.compression = 32767
    /\ ifd.predictor = 2
    /\ ifd.samples_per_pixel = 2
    /\ ifd.rows_per_strip = 2 /\ ifd.image_height = 3
    /\ ret.ran = <<"_get_dtype", "_get_chunks_from_strips", "_add_dim_for_samples_per_pixel",
                   "_construct_chunk_manifest", "_get_codecs">>
    /\ ret.exc = "ValueError"

\* C11: _get_dtype returns a type if and only if all sample formats are equal,
\* all bits-per-sample are equal, the (format, bit width) pair is in the table
\* and it is not a 64-bit integer; otherwise it raises ValueError when the sample
\* formats or the bit widths differ, ValueError "Unrecognized datatype" when the
\* pair has no mapping, and NotImplementedError (not turned into that
\* ValueError) for a 64-bit integer.
DtypeOutcome ==
    pc = "done" =>
        LET f == ifd.sample_format
            b == ifd.bits_per_sample
            uniform == /\ \A i \in DOMAIN f : f[i] = f[1]
                       /\ \A i \in DOMAIN b : b[i] = b[1]
        IN  /\ Returned(ret) <=> (uniform /\ SupportedPair(f[1], b[1]))
            /\ ~uniform =>
                  /\ ret.exc = "ValueError"
                  /\ ret.msg \in {"multiple sample formats in a single IFD",
                                  "multiple bits per sample in a single IFD"}
            /\ (uniform /\ <<f[1], b[1]>> \notin DOMAIN SAMPLE_DTYPES) =>
                  (ret.exc = "ValueError" /\ ret.msg = "Unrecognized datatype")
            /\ (uniform /\ f[1] \in {1, 2} /\ b[1] = 64) =>
                  ret.exc = "NotImplementedError"

\* C11's case: a two-sample IFD of signed 64-bit integers has been rejected with
\* NotImplementedError.
DtypeOutcomeWitness ==
    /\ pc = "done"
    /\ ifd.sample_format = <<2, 2>>
    /\ ifd.bits_per_sample = <<64, 64>>
    /\ ret.exc = "NotImplementedError"

\* C12: for an IFD that references sub-IFDs (tag 330 present and non-empty),
\* _construct_manifest_array raises NotImplementedError "TIFFs with Sub-IFDs are
\* not yet supported." as its first action, whatever the other fields are: no
\* dtype, geometry, manifest or codec step has run.
SubIfdsRaiseFirst ==
    (pc = "done" /\ "330" \in DOMAIN ifd.other_tags /\ ifd.other_tags["330"] # <<>>) =>
        /\ ret.exc = "NotImplementedError"
        /\ ret.msg = "TIFFs with Sub-IFDs are not yet supported."
        /\ ret.ran = <<>>

\* C12's case: an IFD with sub-IFDs that also has an unmapped sample type, no
\* layout, an unsupported photometric interpretation and an unknown compression
\* code has been rejected for its sub-IFDs.
SubIfdsRaiseFirstWitness ==
    /\ pc = "done"
    /\ ifd.other_tags = ("330" :> <<64>>)
    /\ ifd.sample_format[1] = 4
    /\ ifd.tile_height = 0 /\ ifd.rows_per_strip = 0
    /\ ifd.photometric_interpretation = 6
    /\ ifd.compression = 32767
    /\ ret.exc = "NotImplementedError"
    /\ ret.ran = <<>>

\* C13: for an IFD without sub-IFDs whose photometric interpretation is 6 or 8,
\* _construct_manifest_array raises the NotImplementedError naming that
\* photometric interpretation before any chunk-geometry resolution, manifest
\* construction or codec assembly: no layout helper has run and no chunk, layout
\* or codec error is raised in its place (only a dtype error may precede it).
PhotometricRaisesBeforeGeometry ==
    (pc = "done" /\ DictGet(ifd.other_tags, "330", <<>>) = <<>>
        /\ ifd.photometric_interpretation \in {6, 8}
        /\ Returned(_get_dtype(ifd.sample_format, ifd.bits_per_sample, endian))) =>
        /\ ret.exc = "NotImplementedError"
        /\ ret.msg = "{name} PhotometricInterpretation is not yet supported."
        /\ ret.arg = ifd.photometric_interpretation
        /\ ret.ran = <<"_get_dtype">>

\* The values of a sequence.
Range(s) == { s[i] : i \in 1..Len(s) }

\* C14: layout selection in _construct_manifest_array (for an IFD that gets as
\* far: no sub-IFDs, a resolvable dtype).  With tile dimensions present the tiled
\* entry point is used, even if rows-per-strip is present too: a returned array
\* has the regular chunk shape (tile height, tile width) on its spatial axes and
\* its manifest holds the tile offsets and byte counts.  With no tile dimensions
\* and rows-per-strip present the strip entry point is used, with the strip
\* offsets and byte counts.  With neither, NotImplementedError "TIFFs without
\* byte counts and offsets aren't supported" is raised.  Exactly one of the three
\* happens.
LayoutSelection ==
    (pc = "done" /\ DictGet(ifd.other_tags, "330", <<>>) = <<>>
        /\ Returned(_get_dtype(ifd.sample_format, ifd.bits_per_sample, endian))) =>
        LET tiles == Reached("_get_chunks_from_tiles")
            strips == Reached("_get_chunks_from_strips")
            neither == /\ ret.exc = "NotImplementedError"
                       /\ ret.msg = "TIFFs without byte counts and offsets aren't supported"
                       /\ ret.ran = <<"_get_dtype">>
        IN  /\ (ifd.tile_height # 0) =>
                  /\ tiles /\ ~strips /\ ~neither
                  /\ Returned(ret) =>
                        LET grid == ret.value.metadata.chunk_grid
                            k == Len(ret.value.metadata.shape)
                            entries == ret.value.chunkmanifest.entries
                        IN  /\ grid.name = "regular"
                            /\ grid.configuration.chunk_shape[k - 1] = ifd.tile_height
                            /\ grid.configuration.chunk_shape[k] = ifd.tile_width
                            /\ \A idx \in DOMAIN entries :
                                  /\ entries[idx].offset \in Range(ifd.tile_offsets)
                                  /\ entries[idx].length \in Range(ifd.tile_byte_counts)
            /\ (ifd.tile_height = 0 /\ ifd.rows_per_strip # 0) =>
                  /\ strips /\ ~tiles /\ ~neither
                  /\ Returned(ret) =>
                        LET entries == ret.value.chunkmanifest.entries
                        IN  \A idx \in DOMAIN entries :
                               /\ entries[idx].offset \in Range(ifd.strip_offsets)
                               /\ entries[idx].length \in Range(ifd.strip_byte_counts)
            /\ (ifd.tile_height = 0 /\ ifd.rows_per_strip = 0) =>
                  (neither /\ ~tiles /\ ~strips)

\* C14's case: an IFD with both tile dimensions and rows-per-strip has been
\* translated through the tiled entry point.
LayoutSelectionWitness ==
    /\ pc = "done"
    /\ ifd.tile_height = 2 /\ ifd.tile_width = 1
    /\ ifd.rows_per_strip = 1
    /\ ifd.image_height = 3
    /\ Returned(ret)
    /\ ret.ran[2] = "_get_chunks_from_tiles"
    /\ ret.value.metadata.chunk_grid.configuration.chunk_shape = <<2, 1>>

\* The offsets and byte counts of the layout an IFD is read through.
LayoutOffsets == IF ifd.tile_height # 0 THEN ifd.tile_offsets ELSE ifd.strip_offsets

LayoutByteCounts ==
    IF ifd.tile_height # 0 THEN ifd.tile_byte_counts ELSE ifd.strip_byte_counts

\* C15: _construct_chunk_manifest raises NotImplementedError "TIFFs without byte
\* counts and offsets aren't supported" and returns no manifest whenever the
\* offsets array is empty or all zero, or the byte-counts array is empty or all
\* zero; an empty manifest is never returned.
EmptyOrZeroArraysRejected ==
    (pc = "done" /\ Reached("_construct_chunk_manifest")) =>
        /\ ((\A i \in DOMAIN LayoutOffsets : LayoutOffsets[i] = 0)
            \/ (\A i \in DOMAIN LayoutByteCounts : LayoutByteCounts[i] = 0)) =>
              /\ ret.exc = "NotImplementedError"
              /\ ret.msg = "TIFFs without byte counts and offsets aren't supported"
              /\ ret.ran[Len(ret.ran)] = "_construct_chunk_manifest"
        /\ Returned(ret) => DOMAIN ret.value.chunkmanifest.entries # {}

\* C15's case: a tiled IFD whose byte counts are all zero while its offsets are
\* not has been rejected by _construct_chunk_manifest.
EmptyOrZeroArraysRejectedWitness ==
    /\ pc = "done"
    /\ ifd.tile_height # 0
    /\ Len(ifd.tile_offsets) > 1
    /\ \A i \in DOMAIN ifd.tile_offsets : ifd.tile_offsets[i] # 0
    /\ \A i \in DOMAIN ifd.tile_byte_counts : ifd.tile_byte_counts[i] = 0
    /\ ret.exc = "NotImplementedError"
    /\ ret.ran[Len(ret.ran)] = "_construct_chunk_manifest"

(***************************************************************************)
(* parser.py: _construct_manifest_group, _build_manifest_arrays,           *)
(* _create_flat_group, _create_nested_group.                               *)
(*                                                                         *)
(* An optional int (ifd: int | None) is the empty sequence for None and    *)
(* <<i>> for the int i.  str(i) is ToString(i).  A ManifestGroup           *)
(* (virtualizarr) is its arrays, its groups and its attributes.            *)
(***************************************************************************)
\* A variant of the test of ifd_index that is a truth test ("if ifd_index:"), so
\* that the index 0 counts as no index.
is_truthy(ifd_index) == ifd_index # <<>> /\ ifd_index[1] # 0

\* ifd_index is not None
is_not_None(ifd_index) == ifd_index # <<>>

ManifestGroup(arrays, groups, attributes) ==
    [arrays |-> arrays, groups |-> groups, attributes |-> attributes]

_create_flat_group(manifest_arrays_, attrs) ==
    Return(ManifestGroup(manifest_arrays_, EmptyDict, attrs))

\* A variant of _create_nested_group that gives every subgroup the attributes of
\* the enclosing group instead of those of its array.
_create_nested_group_group_attrs(manifest_arrays_, attrs, vz_version_ok) ==
    IF ~vz_version_ok
    THEN Raise("ImportError", "The 'nested' ifd_layout requires VirtualiZarr >= 2.2.0")
    ELSE Return(ManifestGroup(
                    EmptyDict,
                    [ifd_key \in DOMAIN manifest_arrays_ |->
                        ManifestGroup((ifd_key :> manifest_arrays_[ifd_key]),
                                      EmptyDict,
                                      attrs)],
                    attrs))

\* vz_version_ok: Version(virtualizarr.__version__) >= Version("2.2.0")
_create_nested_group(manifest_arrays_, attrs, vz_version_ok) ==
    IF ~vz_version_ok
    THEN Raise("ImportError", "The 'nested' ifd_layout requires VirtualiZarr >= 2.2.0")
    ELSE Return(ManifestGroup(
                    EmptyDict,
                    [ifd_key \in DOMAIN manifest_arrays_ |->
                        ManifestGroup((ifd_key :> manifest_arrays_[ifd_key]),
                                      EmptyDict,
                                      manifest_arrays_[ifd_key].metadata.attributes)],
                    attrs))

(***************************************************************************)
(* SpecGroup: _construct_manifest_group applied to an opened file of       *)
(* 0..MaxIfds IFDs drawn from DirectoryIfds, with no index or an index of  *)
(* 0..len(tiff.ifds) (the last one out of range), each ifd_layout of       *)
(* IfdLayouts, both byte orders and both outcomes of the VirtualiZarr      *)
(* version test.  The loop over tiff.ifds takes one step per IFD.          *)
(***************************************************************************)
MaxIfds == 3

\* A stripped one-sample IFD, a tiled planar two-sample IFD, an IFD with
\* sub-IFDs and an IFD whose sample type has no mapping.
DirectoryIfds ==
    LET stripped == LayoutIfd(2, 2, [tile_height |-> 0, tile_width |-> 0,
                                     rows_per_strip |-> 1], 1, 1)
        tiled == [LayoutIfd(2, 2, [tile_height |-> 1, tile_width |-> 2,
                                   rows_per_strip |-> 0], 2, 2)
                    EXCEPT !.photometric_interpretation = 2]
        dense(b) == WithArrays(b, Arrays(DenseOffsets(ExpectedChunks(b)),
                                         DenseByteCounts(ExpectedChunks(b))))
    IN  { dense(stripped),
          dense(tiled),
          [dense(stripped) EXCEPT !.other_tags = (SubIfdKey :> <<64>>)],
          [dense(stripped) EXCEPT !.sample_format = <<4>>] }

IfdLayouts == {"flat", "nested", "tree"}

InitGroup ==
    /\ pc = "call"
    /\ \E n \in 0..MaxIfds : tiff \in [1..n -> DirectoryIfds]
    /\ endian \in Endians
    /\ \E i \in {<<>>} \cup { <<k>> : k \in 0..Len(tiff) },
          l \in IfdLayouts, v \in BOOLEAN :
          args = [path |-> Path, ifd |-> i, ifd_layout |-> l, vz_version_ok |-> v]
    /\ ifd = None
    /\ ret = None
    /\ codec = None
    /\ data = None
    /\ manifest_arrays = EmptyDict
    /\ next_idx = 0
    /\ translated = <<>>
    /\ source = <<>>
    /\ io = <<>>

\* parser.py:353-357: the single requested IFD.
build_single ==
    /\ pc = "call"
    /\ is_not_None(args.ifd)
    /\ LET ifd_index == args.ifd[1]
       IN  IF ifd_index >= Len(tiff)
           THEN /\ ret' = Raise("IndexError", "list index out of range")
                /\ pc' = "done"
                /\ UNCHANGED <<manifest_arrays, translated>>
           ELSE LET array == _construct_manifest_array(tiff[ifd_index + 1],
                                                       args.path, endian)
                IN  /\ translated' = Append(translated, ifd_index)
                    /\ IF Returned(array)
                       THEN /\ manifest_arrays' =
                                  (ToString(ifd_index) :> array.value) @@ manifest_arrays
                            /\ pc' = "group"
                            /\ ret' = ret
                       ELSE /\ ret' = array
                            /\ pc' = "done"
                            /\ manifest_arrays' = manifest_arrays
    /\ UNCHANGED <<ifd, endian, args, codec, data, tiff, next_idx, file>>

\* A variant of build_next that numbers the IFDs from 1 (enumerate(tiff.ifds, 1)).
build_next_from_one ==
    /\ pc = "call"
    /\ ~is_not_None(args.ifd)
    /\ next_idx < Len(tiff)
    /\ LET array == _construct_manifest_array(tiff[next_idx + 1], args.path, endian)
       IN  /\ translated' = Append(translated, next_idx)
           /\ IF Returned(array)
              THEN /\ manifest_arrays' =
                         (ToString(next_idx + 1) :> array.value) @@ manifest_arrays
                   /\ next_idx' = next_idx + 1
                   /\ UNCHANGED <<pc, ret>>
              ELSE /\ ret' = array
                   /\ pc' = "done"
                   /\ UNCHANGED <<manifest_arrays, next_idx>>
    /\ UNCHANGED <<ifd, endian, args, codec, data, tiff, file>>

\* parser.py:360-363: one iteration of the loop over enumerate(tiff.ifds).
build_next ==
    /\ pc = "call"
    /\ ~is_not_None(args.ifd)
    /\ next_idx < Len(tiff)
    /\ LET array == _construct_manifest_array(tiff[next_idx + 1], args.path, endian)
       IN  /\ translated' = Append(translated, next_idx)
           /\ IF Returned(array)
              THEN /\ manifest_arrays' =
                         (ToString(next_idx) :> array.value) @@ manifest_arrays
                   /\ next_idx' = next_idx + 1
                   /\ UNCHANGED <<pc, ret>>
              ELSE /\ ret' = array
                   /\ pc' = "done"
                   /\ UNCHANGED <<manifest_arrays, next_idx>>
    /\ UNCHANGED <<ifd, endian, args, codec, data, tiff, file>>

\* parser.py:365: the loop is over, _build_manifest_arrays returns.
build_return ==
    /\ pc = "call"
    /\ ~is_not_None(args.ifd)
    /\ next_idx = Len(tiff)
    /\ pc' = "group"
    /\ UNCHANGED <<ifd, endian, args, ret, codec, data, directory>>

\* parser.py:323-331: the group of the arrays.
create_group ==
    /\ pc = "group"
    /\ ret' = IF args.ifd_layout = "flat"
              THEN _create_flat_group(manifest_arrays, EmptyDict)
              ELSE IF args.ifd_layout = "nested"
              THEN _create_nested_group(manifest_arrays, EmptyDict, args.vz_version_ok)
              ELSE RaiseF("ValueError",
                          "Expected 'flat' or 'nested' for ifd_layout; got {ifd_layout}",
                          args.ifd_layout)
    /\ pc' = "done"
    /\ UNCHANGED <<ifd, endian, args, codec, data, directory>>

NextGroup == build_single \/ build_next \/ build_return \/ create_group

SpecGroup == InitGroup /\ [][NextGroup]_vars

\* The array _construct_manifest_array makes of the k-th IFD (0-based).
ArrayOf(k) == _construct_manifest_array(tiff[k + 1], args.path, endian).value

\* The indices 0, 1, ..., n - 1 in ascending order.
Ascending(n) == [k \in 1..n |-> k - 1]

\* C16: _build_manifest_arrays.  When an IFD index i is requested (i = 0
\* included) the result has exactly one array, named str(i), the translation of
\* the i-th IFD, and no other IFD is translated.  When no index is requested the
\* result has exactly one array per IFD, the k-th IFD's array being named str(k),
\* and the IFDs are translated strictly in ascending index order.
BuildManifestArrays ==
    /\ (args.ifd = <<>>) => translated = Ascending(Len(translated))
    /\ (args.ifd # <<>>) => translated \in {<<>>, args.ifd}
    /\ (pc = "group") =>
          IF args.ifd # <<>>
          THEN /\ DOMAIN manifest_arrays = {ToString(args.ifd[1])}
               /\ manifest_arrays[ToString(args.ifd[1])] = ArrayOf(args.ifd[1])
               /\ translated = args.ifd
          ELSE /\ DOMAIN manifest_arrays = { ToString(k) : k \in 0..(Len(tiff) - 1) }
               /\ Cardinality(DOMAIN manifest_arrays) = Len(tiff)
               /\ \A k \in 0..(Len(tiff) - 1) : manifest_arrays[ToString(k)] = ArrayOf(k)
               /\ translated = Ascending(Len(tiff))

\* C16's case: index 0 of a file of three IFDs, the first two different, has been
\* requested and only that IFD translated.
BuildManifestArraysWitness ==
    /\ pc = "group"
    /\ Len(tiff) = 3
    /\ tiff[1] # tiff[2]
    /\ args.ifd = <<0>>
    /\ DOMAIN manifest_arrays = {"0"}
    /\ translated = <<0>>

\* _build_manifest_arrays has returned (every IFD it had to translate was
\* translated) and the group creation has run.
GroupCreated ==
    /\ pc = "done"
    /\ IF args.ifd # <<>> THEN DOMAIN manifest_arrays # {} ELSE next_idx = Len(tiff)

\* The group holds every translated array as a direct member under its
\* index-string name and has no subgroups.
IsFlatGroup(group) ==
    /\ group.arrays = manifest_arrays
    /\ DOMAIN group.groups = {}

\* The group holds no direct arrays and exactly one subgroup per translated
\* array, named by the same index string, containing exactly that one array
\* under the same name and carrying that array's attributes.
IsNestedGroup(group) ==
    /\ DOMAIN group.arrays = {}
    /\ DOMAIN group.groups = DOMAIN manifest_arrays
    /\ \A k \in DOMAIN manifest_arrays :
          /\ DOMAIN group.groups[k].arrays = {k}
          /\ group.groups[k].arrays[k] = manifest_arrays[k]
          /\ group.groups[k].attributes = manifest_arrays[k].metadata.attributes
          /\ DOMAIN group.groups[k].groups = {}

\* C17 as stated: with ifd_layout "flat" the returned group is the flat group of
\* the translated arrays; with "nested" it is the nested group, one subgroup per
\* array; any other ifd_layout raises ValueError.
GroupAssembly ==
    GroupCreated =>
        CASE args.ifd_layout = "flat" -> Returned(ret) /\ IsFlatGroup(ret.value)
          [] args.ifd_layout = "nested" -> Returned(ret) /\ IsNestedGroup(ret.value)
          [] OTHER -> ret.exc = "ValueError"

\* C17, amended: as stated, except that "nested" returns the nested group only
\* when the installed VirtualiZarr is at least 2.2.0, and raises ImportError
\* otherwise.
GroupAssemblyVersioned ==
    GroupCreated =>
        CASE args.ifd_layout = "flat" -> Returned(ret) /\ IsFlatGroup(ret.value)
          [] args.ifd_layout = "nested" ->
                IF args.vz_version_ok
                THEN Returned(ret) /\ IsNestedGroup(ret.value)
                ELSE ret.exc = "ImportError"
          [] OTHER ->
                /\ ret.exc = "ValueError"
                /\ ret.msg = "Expected 'flat' or 'nested' for ifd_layout; got {ifd_layout}"
                /\ ret.arg = args.ifd_layout

\* C17's case: a nested group of two arrays with different attributes has been
\* returned.
GroupAssemblyVersionedWitness ==
    /\ pc = "done"
    /\ args.ifd_layout = "nested"
    /\ Returned(ret)
    /\ DOMAIN ret.value.groups = {"0", "1"}
    /\ ret.value.groups["0"].attributes # ret.value.groups["1"].attributes

\* int(text) of a decimal numeral.
Digit(c) ==
    CASE c = "0" -> 0 [] c = "1" -> 1 [] c = "2" -> 2 [] c = "3" -> 3 [] c = "4" -> 4
      [] c = "5" -> 5 [] c = "6" -> 6 [] c = "7" -> 7 [] c = "8" -> 8 [] c = "9" -> 9

RECURSIVE IntOf(_)
IntOf(text) ==
    IF text = <<>> THEN 0
    ELSE 10 * IntOf(SubSeq(text, 1, Len(text) - 1)) + Digit(text[Len(text)])

\* The nested-grid count the GDAL metadata of the IFD states: the number in its
\* item "number_of_nested_grids", 0 when it has no such item.
NestedGridCount ==
    IF \E i \in DOMAIN ifd.gdal_metadata : ifd.gdal_metadata[i].name = "number_of_nested_grids"
    THEN LET i == CHOOSE i \in DOMAIN ifd.gdal_metadata :
                      ifd.gdal_metadata[i].name = "number_of_nested_grids"
         IN  IntOf(strip(ifd.gdal_metadata[i].text))
    ELSE 0

\* C18: for an IFD that passes all earlier checks, _construct_manifest_array
\* raises the nested-grid NotImplementedError if and only if the nested-grid
\* count of the parsed GDAL metadata is greater than zero; a blob that states a
\* count of zero, or has no such item, does not raise.
NestedGridsRaiseIffPositive ==
    (pc = "done" /\ Reached("_get_attributes")) =>
        ((/\ ret.exc = "NotImplementedError"
          /\ ret.msg = "Nested grids are not supported, but file has {nested} nested grid based on GDAL metadata.")
         <=> NestedGridCount > 0)

\* C19: an IFD whose predictor code is not 1 (none), 2 (horizontal differencing)
\* or 3 (floating point) makes codec assembly raise; _get_codecs never returns a
\* pipeline for it.
UnsupportedPredictorRaises ==
    (pc = "done" /\ ifd.predictor \notin {1, 2, 3}) => ~Returned(ret)

\* What a caller observes of an outcome: the value returned, or the exception
\* and its message.
Observable(r) == [f \in (DOMAIN r) \ {"ran"} |-> r[f]]

\* The orders the IFDs of the file can be translated in: the permutations of
\* their indices.
Orders ==
    { o \in [1..Len(tiff) -> 0..(Len(tiff) - 1)] :
        \A i, j \in 1..Len(tiff) : o[i] = o[j] => i = j }

RECURSIVE BuildInOrder(_, _)
\* The outcome of translating the IFDs in the given order, each by
\* _construct_manifest_array on its own IFD, the arrays stored under str(index),
\* the first error raised ending the run.
BuildInOrder(order, arrays) ==
    IF order = <<>>
    THEN Return(arrays)
    ELSE LET array == _construct_manifest_array(tiff[Head(order) + 1], args.path, endian)
         IN  IF Returned(array)
             THEN BuildInOrder(Tail(order),
                               (ToString(Head(order)) :> array.value) @@ arrays)
             ELSE Observable(array)

\* _build_manifest_arrays has ended, with no index requested, by returning
\* manifest_arrays or by raising ret.
BuiltAll == args.ifd = <<>> /\ pc = "group"

FailedAll == args.ifd = <<>> /\ pc = "done" /\ next_idx < Len(tiff)

\* The indices of the IFDs whose translation raises.
Failing ==
    { k \in 0..(Len(tiff) - 1) :
        ~Returned(_construct_manifest_array(tiff[k + 1], args.path, endian)) }

ErrorOf(k) == Observable(_construct_manifest_array(tiff[k + 1], args.path, endian))

ENDIAN == (<<"I", "I">> :> "little") @@ (<<"M", "M">> :> "big")

\* store.get_range(path, start=start, end=end_).to_bytes()
get_range(bytes, start, end_) == SubSeq(bytes, start + 1, Min(end_, Len(bytes)))

\* The read of a byte range, as io records it.
RangeRead(start, end_) == [op |-> "get_range", start |-> start, end |-> end_]

\* The directory reader's opening of the file (_open_tiff, TIFF.open), as io
\* records it.
TiffOpen == [op |-> "TIFF.open", start |-> 0, end |-> 0]

(***************************************************************************)
(* SpecCall: VirtualTIFF(ifd, "flat").__call__ applied to a file that      *)
(* starts with one of the byte sequences of Sources and whose directory    *)
(* holds 0..MaxIfds IFDs of DirectoryIfds, with no index or an index of    *)
(* 0..len(tiff.ifds).  tiff is what the directory reader yields once it    *)
(* has opened the file.  The result (ret) is the group the ManifestStore   *)
(* is built around.                                                        *)
(***************************************************************************)
\* Little-endian and big-endian TIFF files, a file with mixed marker bytes and a
\* file that is no TIFF.
Sources ==
    { <<"I", "I", "*">>, <<"M", "M", "*">>, <<"I", "M", "*">>, <<"B", "M">> }

InitCall ==
    /\ pc = "sniff"
    /\ source \in Sources
    /\ io = <<>>
    /\ \E n \in 0..MaxIfds : tiff \in [1..n -> DirectoryIfds]
    /\ endian = None
    /\ \E i \in {<<>>} \cup { <<k>> : k \in 0..Len(tiff) } :
          args = [path |-> Path, ifd |-> i, ifd_layout |-> "flat", vz_version_ok |-> TRUE]
    /\ ifd = None
    /\ ret = None
    /\ codec = None
    /\ data = None
    /\ manifest_arrays = EmptyDict
    /\ next_idx = 0
    /\ translated = <<>>

\* A variant of sniff that takes a file with unrecognized leading bytes to be
\* little-endian (ENDIAN.get(..., "little")).
sniff_default_little ==
    /\ pc = "sniff"
    /\ io' = Append(io, RangeRead(0, 2))
    /\ LET magic == get_range(source, 0, 2)
       IN  endian' = IF magic \in DOMAIN ENDIAN THEN ENDIAN[magic] ELSE "little"
    /\ pc' = "open"
    /\ UNCHANGED <<ifd, args, ret, codec, data, tiff, manifest_arrays, next_idx,
                   translated, source>>

\* parser.py:427: endian = ENDIAN[store.get_range(urlpath, start=0, end=2).to_bytes()]
sniff ==
    /\ pc = "sniff"
    /\ io' = Append(io, RangeRead(0, 2))
    /\ LET magic == get_range(source, 0, 2)
       IN  IF magic \in DOMAIN ENDIAN
           THEN /\ endian' = ENDIAN[magic]
                /\ pc' = "open"
                /\ ret' = ret
           ELSE /\ ret' = RaiseF("KeyError", "{key}", magic)
                /\ pc' = "done"
                /\ endian' = endian
    /\ UNCHANGED <<ifd, args, codec, data, tiff, manifest_arrays, next_idx, translated,
                   source>>

\* parser.py:316-317, _open_tiff: the directory reader opens the file.
open_tiff ==
    /\ pc = "open"
    /\ io' = Append(io, TiffOpen)
    /\ pc' = "call"
    /\ UNCHANGED <<ifd, endian, args, ret, codec, data, tiff, manifest_arrays, next_idx,
                   translated, source>>

NextCall == sniff \/ open_tiff \/ build_single \/ build_next \/ build_return \/ create_group

SpecCall == InitCall /\ [][NextCall]_vars

\* The two bytes the file starts with.
Magic == SubSeq(source, 1, Min(2, Len(source)))

\* C21: VirtualTIFF.__call__ reads the byte range [0, 2) of the source exactly
\* once, before the directory reader opens the file.  The byte order every IFD
\* translation is given is the one ENDIAN maps those two bytes to.  When the two
\* bytes are not one of the two markers the call fails: the directory is never
\* opened, no IFD is translated and no group (so no store) is returned.
SniffBeforeOpen ==
    /\ io \in {<<>>, <<RangeRead(0, 2)>>, <<RangeRead(0, 2), TiffOpen>>}
    /\ (pc # "sniff") => io # <<>>
    /\ (pc \in {"call", "group"}) => io = <<RangeRead(0, 2), TiffOpen>>
    /\ (translated # <<>>) =>
          /\ Magic \in DOMAIN ENDIAN
          /\ io = <<RangeRead(0, 2), TiffOpen>>
          /\ \A j \in 1..Len(translated) :
                LET k == translated[j]
                    array == _construct_manifest_array(tiff[k + 1], args.path, ENDIAN[Magic])
                IN  IF Returned(array)
                    THEN manifest_arrays[ToString(k)] = array.value
                    ELSE ret = array
    /\ (pc # "sniff" /\ Magic \notin DOMAIN ENDIAN) =>
          /\ pc = "done"
          /\ ret.exc = "KeyError"
          /\ io = <<RangeRead(0, 2)>>
          /\ translated = <<>>
          /\ manifest_arrays = EmptyDict

\* C21's case: a big-endian file has been read once, then opened, and both of
\* its IFDs translated as big-endian (not little-endian) into the returned group.
SniffBeforeOpenWitness ==
    /\ pc = "done"
    /\ Magic = <<"M", "M">>
    /\ io = <<RangeRead(0, 2), TiffOpen>>
    /\ Returned(ret)
    /\ Len(tiff) = 2
    /\ translated = <<0, 1>>
    /\ manifest_arrays["0"] # _construct_manifest_array(tiff[1], args.path, "little").value

\* The translated IFD is stripped and its image height is not a multiple of its
\* rows-per-strip.
PartialStrips ==
    /\ pc = "done"
    /\ ifd.tile_height = 0
    /\ ifd.rows_per_strip # 0
    /\ ifd.image_height % ifd.rows_per_strip # 0

\* The outcome is the ValueError of check_no_partial_strips.
IsPartialStripsError(outcome) ==
    IF Returned(outcome)
    THEN FALSE
    ELSE /\ outcome.exc = "ValueError"
         /\ outcome.msg = check_no_partial_strips(1, 2).msg

IsJpegTablesError(outcome) ==
    IF Returned(outcome)
    THEN FALSE
    ELSE /\ outcome.exc = "NotImplementedError"
         /\ outcome.msg = "JPEG compression with quantization tables is not yet supported."

\* C23: _get_compression.  An IFD with JPEG compression (code 7) that carries a
\* non-empty JPEG table raises NotImplementedError "JPEG compression with
\* quantization tables is not yet supported." and yields no codec; an IFD whose
\* compression is not JPEG, or that carries no JPEG tables, never raises this
\* error.
JpegTablesRaise ==
    pc = "done" =>
        LET jpeg == args.compression = 7
            tables == ifd.has_jpeg_tables /\ ifd.jpeg_tables # <<>>
        IN  /\ (jpeg /\ tables) => IsJpegTablesError(ret)
            /\ (~jpeg \/ ~tables) => ~IsJpegTablesError(ret)

\* The bytes-to-bytes steps of a pipeline, in order.
BytesToBytes(codecs) == SelectSeq(codecs, LAMBDA c : c.category = "bytes_bytes")

\* The decompression codecs of a pipeline, in order: its bytes-to-bytes steps
\* other than the size truncation.
Decompressors(codecs) == SelectSeq(BytesToBytes(codecs), LAMBDA c : c.cls # "TruncateCodec")

\* The translated IFD is the single-band, uncompressed, predictor-free,
\* little-endian image of 512 x 512 pixels in 256 x 256 tiles.
TileScenario ==
    /\ pc = "done"
    /\ endian = "little"
    /\ ifd.image_height = 512 /\ ifd.image_width = 512
    /\ ifd.tile_height = 256 /\ ifd.tile_width = 256
    /\ ifd.samples_per_pixel = 1 /\ ifd.compression = 1 /\ ifd.predictor = 1

\* The scenario's result: a regular chunk grid, a manifest of 2 x 2 = 4 entries
\* and a pipeline of the little-endian BytesCodec alone.
TileScenarioResult ==
    /\ Returned(ret)
    /\ ret.value.metadata.chunk_grid.name = "regular"
    /\ ret.value.metadata.chunk_grid.configuration.chunk_shape = <<256, 256>>
    /\ ret.value.chunkmanifest.shape = <<2, 2>>
    /\ Cardinality(DOMAIN ret.value.chunkmanifest.entries) = 4
    /\ ret.value.metadata.codecs = <<BytesCodec("little")>>

\* With a recognized compressor the pipeline holds exactly one decompression
\* codec and it is the last step.
OneDecompressorLast(codecs) ==
    /\ Len(Decompressors(codecs)) = 1
    /\ codecs[Len(codecs)] = Decompressors(codecs)[1]

GridRank(grid) ==
    IF grid.name = "regular"
    THEN Len(grid.configuration.chunk_shape)
    ELSE Len(grid.configuration.chunk_shapes)

\* The chunk geometry a chunk grid declares has a leading entry for a band axis
\* of n samples: a chunk size of 1..n, or blocks that sum to n.
HasBandEntry(grid, n) ==
    IF grid.name = "regular"
    THEN grid.configuration.chunk_shape[1] \in 1..n
    ELSE SumSeq(grid.configuration.chunk_shapes[1]) = n

\* C25: in every array _construct_manifest_array returns, the shape, the chunk
\* geometry and the dimension names have the same rank.  With samples-per-pixel
\* <= 1 the shape is (H, W) and the names are (y, x); with n > 1 samples the
\* shape is (n, H, W), the names are (band, y, x) and the chunk geometry has a
\* leading band entry, for either planar
\* configuration and whatever the (supported) photometric interpretation.
RankAgreement ==
    (pc = "done" /\ Returned(ret)) =>
        LET m == ret.value.metadata
            n == ifd.samples_per_pixel
            H == ifd.image_height
            W == ifd.image_width
        IN  /\ Len(m.shape) = GridRank(m.chunk_grid)
            /\ Len(m.shape) = Len(m.dimension_names)
            /\ IF n <= 1
               THEN /\ m.shape = <<H, W>>
                    /\ m.dimension_names = <<"y", "x">>
               ELSE /\ m.shape = <<n, H, W>>
                    /\ m.dimension_names = <<"band", "y", "x">>
                    /\ HasBandEntry(m.chunk_grid, n)

\* C25's case: a planar two-sample image that is not RGB, with a rectilinear
\* chunk geometry, has been translated into an array of rank 3.
RankAgreementWitness ==
    /\ pc = "done"
    /\ Returned(ret)
    /\ ifd.samples_per_pixel = 2
    /\ ifd.planar_configuration = 2
    /\ ifd.photometric_interpretation # 2
    /\ ret.value.metadata.chunk_grid.name = "rectilinear"
    /\ Len(ret.value.metadata.shape) = 3

\* The positions of a pipeline's steps of the class cls.
StepsOf(codecs, cls) == { i \in 1..Len(codecs) : codecs[i].cls = cls }

\* C26: _get_codecs appends a transpose codec immediately followed by the
\* ChunkyCodec if and only if the planar configuration is 1 (chunky) and
\* samples-per-pixel > 1; in every other case it appends exactly one BytesCodec
\* and neither of the other two; in both cases the array-to-bytes codec carries
\* the byte order detected for the file.
InterleaveCodecs ==
    (pc = "done" /\ Returned(ret)) =>
        LET codecs == ret.value
            transposes == StepsOf(codecs, "TransposeCodec")
            chunkys == StepsOf(codecs, "ChunkyCodec")
            plains == StepsOf(codecs, "BytesCodec")
            interleaved == ifd.planar_configuration = 1 /\ ifd.samples_per_pixel > 1
        IN  /\ interleaved <=>
                  \E i \in 1..(Len(codecs) - 1) :
                     /\ transposes = {i}
                     /\ chunkys = {i + 1}
            /\ interleaved => plains = {}
            /\ ~interleaved =>
                  /\ Cardinality(plains) = 1
                  /\ transposes = {}
                  /\ chunkys = {}
            /\ \A i \in chunkys \cup plains :
                  /\ codecs[i].category = "array_bytes"
                  /\ codecs[i].configuration.endian = endian

\* C26's cases: a big-endian pipeline with transpose + ChunkyCodec after a
\* predictor step has been built.
InterleaveCodecsWitness ==
    /\ pc = "done"
    /\ Returned(ret)
    /\ endian = "big"
    /\ Len(ret.value) >= 3
    /\ ret.value[2].cls = "TransposeCodec"
    /\ ret.value[3].cls = "ChunkyCodec"
    /\ ret.value[3].configuration.endian = "big"

\* The order given to the transpose codec of a pipeline with exactly one.
TransposeOrder(codecs) ==
    codecs[CHOOSE i \in StepsOf(codecs, "TransposeCodec") : TRUE].configuration.order

\* order is a permutation of 0..n-1.
IsPermutation(order) ==
    /\ \A i \in 1..Len(order) : order[i] \in 0..(Len(order) - 1)
    /\ \A i, j \in 1..Len(order) : order[i] = order[j] => i = j

\* _get_codecs has returned the pipeline of a chunky multi-sample IFD.
ChunkyPipeline ==
    /\ pc = "done"
    /\ Returned(ret)
    /\ ifd.planar_configuration = 1
    /\ ifd.samples_per_pixel > 1

\* C27 as stated: for a chunky multi-sample IFD (axes band, y, x) the order
\* given to the transpose codec is a permutation of 0..2 that moves the band
\* axis (axis 0) to the last position: axis 0 is the last entry of the order
\* (or, reading the order as destinations, the first entry is the last axis).
TransposeBandLast ==
    ChunkyPipeline =>
        LET order == TransposeOrder(ret.value)
        IN  /\ Len(order) = Len(args.shape)
            /\ IsPermutation(order)
            /\ (order[Len(order)] = 0 \/ order[1] = Len(order) - 1)

\* C27, amended: for a chunky multi-sample IFD (axes band, y, x) the order given
\* to the transpose codec is (0, 2, 1), a permutation of 0..2 that keeps the
\* band axis first and reverses the remaining axes (y and x swap).
TransposeBandFirst ==
    ChunkyPipeline =>
        LET order == TransposeOrder(ret.value)
        IN  /\ Len(order) = Len(args.shape)
            /\ IsPermutation(order)
            /\ order = <<0, 2, 1>>

\* C27's case: the pipeline of a chunky two-sample IFD, with its transpose codec,
\* has been built for an array of rank 3.
TransposeBandFirstWitness ==
    /\ ChunkyPipeline
    /\ Len(args.shape) = 3
    /\ StepsOf(ret.value, "TransposeCodec") # {}
    /\ TransposeOrder(ret.value)[1] = 0

\* The chunk geometry of the translated IFD has a short last block: it is
\* stripped, with fewer rows per strip than rows and a remainder.
ShortLastStrip ==
    /\ ifd.tile_height = 0
    /\ ifd.rows_per_strip # 0
    /\ ifd.rows_per_strip < ifd.image_height
    /\ ifd.image_height % ifd.rows_per_strip # 0

\* C28: in every array _construct_manifest_array returns, the pipeline holds
\* the size-truncation codec (once) if and only if the chunk geometry is
\* rectilinear, which is exactly when the metadata declares the chunk grid
\* "rectilinear", with one list of block sizes per axis, rather than "regular";
\* so too after the band dimension has been injected, for both planar
\* configurations.
TruncateIffRectilinear ==
    (pc = "done" /\ Returned(ret)) =>
        LET m == ret.value.metadata
            truncates == StepsOf(m.codecs, "TruncateCodec")
            declared == m.chunk_grid.name = "rectilinear"
        IN  /\ (truncates # {}) <=> ShortLastStrip
            /\ ShortLastStrip <=> declared
            /\ Cardinality(truncates) <= 1
            /\ m.chunk_grid.name \in {"regular", "rectilinear"}
            /\ declared =>
                  /\ Len(m.chunk_grid.configuration.chunk_shapes) = Len(m.shape)
                  /\ \A a \in 1..Len(m.shape) :
                        SumSeq(m.chunk_grid.configuration.chunk_shapes[a]) = m.shape[a]

\* C28's case: a chunky two-sample image with a short last strip has been
\* translated: its grid is rectilinear and its pipeline truncates.
TruncateIffRectilinearWitness ==
    /\ pc = "done"
    /\ Returned(ret)
    /\ ifd.samples_per_pixel = 2
    /\ ifd.planar_configuration = 1
    /\ ret.value.metadata.chunk_grid.name = "rectilinear"
    /\ StepsOf(ret.value.metadata.codecs, "TruncateCodec") # {}

(***************************************************************************)
(* SpecInterleaving: _construct_manifest_array applied to multi-sample     *)
(* IFDs (2..MaxSamples+1 samples per pixel) of every layout of Layouts,    *)
(* with dense offsets and byte counts, for every value of the              *)
(* planar-configuration field: 1 (chunky), 2 (planar) and 3, which stands  *)
(* for the values the TIFF specification does not define (the field is an  *)
(* enumeration member or, for such a value, a plain int).                  *)
(***************************************************************************)
PlanarConfigurationValues == PlanarConfigurations \cup {3}

InitInterleaving ==
    /\ pc = "call"
    /\ \E H \in 1..MaxDim, W \in 1..MaxDim, l \in Layouts,
          n \in 2..(MaxSamples + 1), p \in PlanarConfigurationValues :
          LET b == LayoutIfd(H, W, l, n, p)
          IN  ifd = WithArrays(b, Arrays(DenseOffsets(ExpectedChunks(b)),
                                         DenseByteCounts(ExpectedChunks(b))))
    /\ endian \in Endians
    /\ args = [path |-> Path]
    /\ ret = None
    /\ codec = None
    /\ data = None
    /\ NoDirectory

NextInterleaving == construct_manifest_array

SpecInterleaving == InitInterleaving /\ [][NextInterleaving]_vars

\* The size of the chunks along the leading (band) axis of the chunk geometry a
\* chunk grid declares.
BandChunk(grid) ==
    IF grid.name = "regular"
    THEN grid.configuration.chunk_shape[1]
    ELSE grid.configuration.chunk_shapes[1][1]

ExceptionValue(cls, message) == [exception |-> cls, message |-> message]

\* reader.py: _get_compression
reader_get_compression(ifd_, compression) ==
    IF compression \in {2, 3, 4}
    THEN Raise("NotImplementedError", "CCITT compression is not yet supported")
    ELSE IF compression = 5
    THEN Return([name |-> "imagecodecs_lzw"])
    ELSE IF compression \in {6, 7}
    THEN Raise("NotImplementedError", "JPEG compression is not yet supported")
    ELSE IF compression = 8
    THEN Return([name |-> "imagecodecs_deflate"])
    ELSE IF compression = 32773
    THEN Return(ExceptionValue("NotImplementedError",
                               "Packbits compression is not yet supported"))
    ELSE IF compression = 50000
    THEN Return([name |-> "imagecodecs_zstd",
                 level |-> DictGet(ifd_.other_tags, "65564", 9)])
    ELSE RaiseF("ValueError", "Compression {compression} not recognized", compression)

\* reader.py:103-112: the codec list of _construct_manifest_array.
reader_codecs(ifd_, dtype_str, chunks) ==
    LET predictor_steps ==
            IF ifd_.predictor = 2
            THEN <<[name |-> "imagecodecs_delta", dtype |-> dtype_str]>>
            ELSE IF ifd_.predictor = 3
            THEN <<[name |-> "imagecodecs_floatpred", dtype |-> dtype_str, shape |-> chunks]>>
            ELSE <<>>
        compression == ifd_.compression
        compressor == reader_get_compression(ifd_, compression)
    IN  IF compression > 1
        THEN IF Returned(compressor)
             THEN Return(predictor_steps \o <<compressor.value>>)
             ELSE compressor
        ELSE Return(predictor_steps)

(***************************************************************************)
(* SpecReader: the codec list of the legacy reader, for every compression  *)
(* code of ReaderCompressionCodes, every predictor of 1..MaxPredictor and  *)
(* the other_tags of OtherTags (with and without the ZSTD level tag).      *)
(***************************************************************************)
\* No compression, every code _get_compression names, and 32767 for the codes it
\* does not list.
ReaderCompressionCodes == {1, 2, 3, 4, 5, 6, 7, 8, 32773, 50000, 32767}

InitReader ==
    /\ pc = "call"
    /\ \E c \in ReaderCompressionCodes, pred \in 1..MaxPredictor, tags \in OtherTags :
          ifd = [BaseIfd EXCEPT !.compression = c, !.predictor = pred, !.other_tags = tags]
    /\ endian = "little"
    /\ args = [dtype |-> "|u1", chunks |-> <<ifd.rows_per_strip, ifd.image_width>>]
    /\ ret = None
    /\ codec = None
    /\ data = None
    /\ NoDirectory

reader_construct_codecs ==
    /\ pc = "call"
    /\ ret' = reader_codecs(ifd, args.dtype, args.chunks)
    /\ pc' = "done"
    /\ UNCHANGED <<ifd, endian, args, codec, data, directory>>

NextReader == reader_construct_codecs

SpecReader == InitReader /\ [][NextReader]_vars

\* The codec configuration the legacy reader's _get_compression gives for the
\* codes 5, 8 and 50000.
ReaderCodecOf(ifd_) ==
    IF ifd_.compression = 5 THEN [name |-> "imagecodecs_lzw"]
    ELSE IF ifd_.compression = 8 THEN [name |-> "imagecodecs_deflate"]
    ELSE [name |-> "imagecodecs_zstd",
          level |-> IF "65564" \in DOMAIN ifd_.other_tags
                    THEN ifd_.other_tags["65564"] ELSE 9]

\* C30: in the legacy reader a codec configuration is returned by
\* _get_compression, and appended to the codec list, only for the compression
\* codes 5 (LZW), 8 (deflate) and 50000 (zstd, its level from tag 65564 or else
\* 9); every other code it is called with (CCITT 2, 3, 4; JPEG 6, 7; PackBits
\* 32773; any unlisted code) ends in a raised NotImplementedError or ValueError
\* and never in a value appended to the codec list.
ReaderCompressionOutcome ==
    (pc = "done" /\ ifd.compression > 1) =>
        IF ifd.compression \in {5, 8, 50000}
        THEN /\ Returned(ret)
             /\ ret.value[Len(ret.value)] = ReaderCodecOf(ifd)
        ELSE /\ ~Returned(ret)
             /\ ret.exc \in {"NotImplementedError", "ValueError"}

====
